---- MODULE Spec2Model ----
(***************************************************************************)
(* A model of apicov: the sys.monitoring controller (sysmon.Tracer), the   *)
(* per-function call tracer (func_tracer.FuncTracer / Overload) and the    *)
(* type-annotation matching engine (type_annotation).                      *)
(*                                                                         *)
(* Python objects are modelled by identifiers (strings) with attribute     *)
(* tables; object identity of the TypeAnnotation objects that              *)
(* get_annotation constructs is modelled by an "oid" path.  A Python       *)
(* exception raised by an operation is modelled by a result record with a  *)
(* field "raised" naming the exception class ("none": nothing raised).     *)
(***************************************************************************)
EXTENDS Integers, Sequences, FiniteSets, TLC

\* ------------------------------------------------------------------------
\* Bounds of the model
\* ------------------------------------------------------------------------

\* Number of calls (enter events) the monitored program makes in one run.
MaxCalls == 3

\* The most values a schema is matched against before its coverage is
\* analyzed.
MaxValues == 3

\* The largest hits and total of the tallies composed.
MaxTally == 2

\* ------------------------------------------------------------------------
\* Runtime values of the monitored program
\* ------------------------------------------------------------------------

\* The runtime class of each value the monitored programs pass or return.
ValueType ==
    [ v5     |-> "int",
      vTrue  |-> "bool",
      vBad   |-> "str",
      vNone  |-> "NoneType",
      vPi    |-> "float",
      vFoo   |-> "Foo",
      vBar   |-> "Bar",
      vWeird |-> "Weird",
      vTracer |-> "Tracer",
      v1     |-> "int",
      v3     |-> "int",
      v4     |-> "int" ]

Values == DOMAIN ValueType

\* The method resolution order of each class (bool derives from int, Bar
\* from Foo, everything from object).
Mro ==
    [ object   |-> {"object"},
      int      |-> {"int", "object"},
      bool     |-> {"bool", "int", "object"},
      str      |-> {"str", "object"},
      NoneType |-> {"NoneType", "object"},
      float    |-> {"float", "object"},
      Foo      |-> {"Foo", "object"},
      Bar      |-> {"Bar", "Foo", "object"},
      Weird    |-> {"Weird", "object"},
      Tracer   |-> {"Tracer", "object"} ]

Classes == DOMAIN Mro

\* type(value) is typ
isinstance_exact(value, typ) == typ = ValueType[value]

\* isinstance(value, typ)
isinstance(value, typ) == typ \in Mro[ValueType[value]]

\* repr(value): the text, or the exception a user-defined __repr__ raises.
ValueRepr ==
    [ v5     |-> [raised |-> "none", text |-> "5"],
      vTrue  |-> [raised |-> "none", text |-> "True"],
      vBad   |-> [raised |-> "none", text |-> "'bad'"],
      vNone  |-> [raised |-> "none", text |-> "None"],
      vPi    |-> [raised |-> "none", text |-> "3.14"],
      vFoo   |-> [raised |-> "none", text |-> "<Foo>"],
      vBar   |-> [raised |-> "none", text |-> "<Bar>"],
      vWeird |-> [raised |-> "ReprError", text |-> ""],
      vTracer |-> [raised |-> "none", text |-> "<Tracer>"],
      v1     |-> [raised |-> "none", text |-> "1"],
      v3     |-> [raised |-> "none", text |-> "3"],
      v4     |-> [raised |-> "none", text |-> "4"] ]

\* The exception classes that occur: the controller's internal-failure
\* marker, exceptions of the monitored program, and the exceptions the
\* controller's own code raises.
MonitoringCallbackError == "MonitoringCallbackError"

ProgramExceptions == {"ValueError", "WeirdError"}

Exceptions ==
    ProgramExceptions \cup
    {MonitoringCallbackError, "IndexError", "AssertionError", "FilterError",
     "ReprError", "RuntimeError"}

\* repr(exception); WeirdError is a program exception whose __repr__ raises.
ExceptionRepr(exception) ==
    IF exception = "WeirdError"
    THEN [raised |-> "ReprError", text |-> ""]
    ELSE [raised |-> "none", text |-> exception \o "()"]

\* ------------------------------------------------------------------------
\* type_annotation.py: TypeCoverage
\* ------------------------------------------------------------------------

TypeCoverage(hits, total) == [hits |-> hits, total |-> total]

\* TypeCoverage.ratio, as the exact fraction <<numerator, denominator>>;
\* 1.0 is <<1, 1>>.
ratio(cov) == IF cov.total > 0 THEN <<cov.hits, cov.total>> ELSE <<1, 1>>

\* A product that multiplies the hits and adds the totals.
Mul_totals_added(a, b) == TypeCoverage(a.hits * b.hits, a.total + b.total)

\* TypeCoverage.__mul__
Mul(a, b) == TypeCoverage(a.hits * b.hits, a.total * b.total)

\* TypeCoverage.__add__
Add(a, b) == TypeCoverage(a.hits + b.hits, a.total + b.total)

\* ------------------------------------------------------------------------
\* type_annotation.py: annotations, get_annotation, match, match_unwind
\* ------------------------------------------------------------------------

\* "No TypeMatch" (Python None returned by match / match_unwind).
NoMatch == [kind |-> "NoMatch"]

\* Declared annotations, as written in the monitored program.
AnnEmpty       == [a |-> "empty"]
AnnNone        == [a |-> "None"]
AnnAny         == [a |-> "Any"]
AnnNever       == [a |-> "Never"]
AnnSelf        == [a |-> "Self"]
AnnType(typ)   == [a |-> "type", typ |-> typ]
AnnUnion(args) == [a |-> "union", args |-> args]
AnnOther(label) == [a |-> "other", label |-> label]

\* get_annotation(annotation).  oid is the identity of the object built.
RECURSIVE get_annotation(_, _)
get_annotation(annotation, oid) ==
    IF annotation.a = "None" THEN [kind |-> "NoneAnnotation", oid |-> oid]
    ELSE IF annotation.a = "Any" THEN [kind |-> "AnyAnnotation", oid |-> oid]
    ELSE IF annotation.a = "Never" THEN [kind |-> "NeverAnnotation", oid |-> oid]
    ELSE IF annotation.a = "union"
    THEN [kind |-> "UnionAnnotation", oid |-> oid,
          options |-> [i \in 1..Len(annotation.args) |->
                          get_annotation(annotation.args[i], Append(oid, i))]]
    ELSE IF annotation.a = "type"
    THEN [kind |-> "InstanceAnnotation", oid |-> oid, typ |-> annotation.typ]
    ELSE [kind |-> "UnknownAnnotation", oid |-> oid,
          label |-> IF annotation.a = "other" THEN annotation.label
                    ELSE annotation.a]

NoAnnotation(oid) == [kind |-> "NoAnnotation", oid |-> oid]

SelfAnnotation(bound_class, oid) ==
    [kind |-> "SelfAnnotation", oid |-> oid, bound_class |-> bound_class]

\* The choice UnionAnnotation.match makes among the indexes of the options
\* that match: the loop returns at the first one.
UnionPickLast(hits) == CHOOSE i \in hits : \A j \in hits : j <= i

UnionPick(hits) == CHOOSE i \in hits : \A j \in hits : i <= j

\* match with InstanceAnnotation.Match holding the class of the value
\* instead of the annotation's.
RECURSIVE match_runtime_type(_, _)
match_runtime_type(ann, value) ==
    CASE ann.kind = "NoAnnotation" -> [kind |-> "NoAnnotation.Match"]
      [] ann.kind = "SelfAnnotation" ->
            IF isinstance(value, ann.bound_class)
            THEN [kind |-> "SelfAnnotation.Match"] ELSE NoMatch
      [] ann.kind = "NoneAnnotation" ->
            IF value = "vNone" THEN [kind |-> "NoneAnnotation.Match"] ELSE NoMatch
      [] ann.kind = "AnyAnnotation" -> [kind |-> "AnyAnnotation.Match"]
      [] ann.kind = "NeverAnnotation" -> NoMatch
      [] ann.kind = "InstanceAnnotation" ->
            IF isinstance(value, ann.typ)
            THEN [kind |-> "InstanceAnnotation.Match", typ |-> ValueType[value]]
            ELSE NoMatch
      [] ann.kind = "UnionAnnotation" ->
            LET hits == {i \in 1..Len(ann.options) :
                            match_runtime_type(ann.options[i], value) # NoMatch}
            IN  IF hits = {} THEN NoMatch
                ELSE LET i == UnionPick(hits)
                     IN  [kind |-> "UnionAnnotation.Match",
                          option |-> ann.options[i].oid,
                          match |-> match_runtime_type(ann.options[i], value)]
      [] ann.kind = "UnknownAnnotation" -> [kind |-> "UnknownAnnotation.Match"]

\* annotation.match(value), for every TypeAnnotation subclass.
RECURSIVE match(_, _)
match(ann, value) ==
    CASE ann.kind = "NoAnnotation" -> [kind |-> "NoAnnotation.Match"]
      [] ann.kind = "SelfAnnotation" ->
            IF isinstance(value, ann.bound_class)
            THEN [kind |-> "SelfAnnotation.Match"] ELSE NoMatch
      [] ann.kind = "NoneAnnotation" ->
            IF value = "vNone" THEN [kind |-> "NoneAnnotation.Match"] ELSE NoMatch
      [] ann.kind = "AnyAnnotation" -> [kind |-> "AnyAnnotation.Match"]
      [] ann.kind = "NeverAnnotation" -> NoMatch
      [] ann.kind = "InstanceAnnotation" ->
            IF isinstance(value, ann.typ)
            THEN [kind |-> "InstanceAnnotation.Match", typ |-> ann.typ]
            ELSE NoMatch
      [] ann.kind = "UnionAnnotation" ->
            LET hits == {i \in 1..Len(ann.options) :
                            match(ann.options[i], value) # NoMatch}
            IN  IF hits = {} THEN NoMatch
                ELSE LET i == UnionPick(hits)
                     IN  [kind |-> "UnionAnnotation.Match",
                          option |-> ann.options[i].oid,
                          match |-> match(ann.options[i], value)]
      [] ann.kind = "UnknownAnnotation" -> [kind |-> "UnknownAnnotation.Match"]

\* match_unwind with an override in AnyAnnotation as well.
match_unwind_any(ann, exception) ==
    CASE ann.kind = "NoAnnotation" -> [kind |-> "NoAnnotation.Match"]
      [] ann.kind = "NeverAnnotation" -> [kind |-> "NeverAnnotation.Match"]
      [] ann.kind = "AnyAnnotation" -> [kind |-> "AnyAnnotation.Match"]
      [] OTHER -> NoMatch

\* match_unwind without NeverAnnotation's override of the default.
match_unwind_default(ann, exception) ==
    CASE ann.kind = "NoAnnotation" -> [kind |-> "NoAnnotation.Match"]
      [] OTHER -> NoMatch

\* annotation.match_unwind(exception)
match_unwind(ann, exception) ==
    CASE ann.kind = "NoAnnotation" -> [kind |-> "NoAnnotation.Match"]
      [] ann.kind = "NeverAnnotation" -> [kind |-> "NeverAnnotation.Match"]
      [] OTHER -> NoMatch

\* str(match)
RECURSIVE Str(_)
Str(m) ==
    CASE m.kind = "NoAnnotation.Match" -> "?"
      [] m.kind = "SelfAnnotation.Match" -> "Self"
      [] m.kind = "NoneAnnotation.Match" -> "None"
      [] m.kind = "AnyAnnotation.Match" -> "Any"
      [] m.kind = "NeverAnnotation.Match" -> "Never"
      [] m.kind = "InstanceAnnotation.Match" -> m.typ
      [] m.kind = "UnionAnnotation.Match" -> Str(m.match)
      [] m.kind = "UnknownAnnotation.Match" -> "<unknown>"

\* analyze_coverage with the default of TypeAnnotation for every schema but
\* NeverAnnotation.
analyze_coverage_default(ann, matches, is_return) ==
    CASE ann.kind = "NeverAnnotation" ->
            IF is_return
            THEN TypeCoverage(IF matches # {} THEN 1 ELSE 0, 1)
            ELSE TypeCoverage(0, 0)
      [] OTHER -> TypeCoverage(IF matches # {} THEN 1 ELSE 0, 1)

\* annotation.analyze_coverage(matches, is_return); matches is a set.
analyze_coverage(ann, matches, is_return) ==
    CASE ann.kind = "NeverAnnotation" ->
            IF is_return
            THEN TypeCoverage(IF matches # {} THEN 1 ELSE 0, 1)
            ELSE TypeCoverage(0, 0)
      [] ann.kind = "UnionAnnotation" ->
            TypeCoverage(Cardinality(matches), Len(ann.options))
      [] OTHER -> TypeCoverage(IF matches # {} THEN 1 ELSE 0, 1)

\* ------------------------------------------------------------------------
\* The monitored program's code units and callables
\* ------------------------------------------------------------------------

\* Code objects: co_filename, co_qualname, and the module name that
\* sys._getframemodulename reports for their frames ("": it reports None).
\* f_again is f recompiled (same module and qualified name); body is a
\* module body; prop is a method whose qualified name denotes a property
\* object; lib is standard-library code; Tracer_enter and Tracer_exit are
\* the controller's own __enter__ and __exit__, get_tool_id the function
\* _get_tool_id that __enter__ calls.
Code ==
    [ f     |-> [co_filename |-> "app.py", module |-> "app", co_qualname |-> "f"],
      f_again |-> [co_filename |-> "app.py", module |-> "app", co_qualname |-> "f"],
      h     |-> [co_filename |-> "app.py", module |-> "app", co_qualname |-> "h"],
      n     |-> [co_filename |-> "app.py", module |-> "app", co_qualname |-> "n"],
      ov    |-> [co_filename |-> "app.py", module |-> "app", co_qualname |-> "ov"],
      g     |-> [co_filename |-> "app.py", module |-> "app", co_qualname |-> "g"],
      body  |-> [co_filename |-> "app.py", module |-> "app", co_qualname |-> "<module>"],
      prop  |-> [co_filename |-> "app.py", module |-> "app", co_qualname |-> "C.p"],
      nomod |-> [co_filename |-> "app.py", module |-> "", co_qualname |-> "nomod"],
      bad   |-> [co_filename |-> "bad.py", module |-> "bad", co_qualname |-> "bad"],
      lib   |-> [co_filename |-> "<frozen importlib>", module |-> "importlib",
                 co_qualname |-> "lib"],
      Tracer_enter |-> [co_filename |-> "sysmon.py", module |-> "apicov.sysmon",
                        co_qualname |-> "Tracer.__enter__"],
      Tracer_exit  |-> [co_filename |-> "sysmon.py", module |-> "apicov.sysmon",
                        co_qualname |-> "Tracer.__exit__"],
      get_tool_id  |-> [co_filename |-> "sysmon.py", module |-> "apicov.sysmon",
                        co_qualname |-> "_get_tool_id"] ]

Codes == DOMAIN Code

\* The names of the parameters of each code unit (the keys of f_locals at
\* the start of a call, in order).
CodeParams ==
    [ f |-> <<"x">>, f_again |-> <<"x">>, h |-> <<"x">>, n |-> <<"x">>,
      ov |-> <<"x", "y">>, g |-> <<"x">>, body |-> <<>>, prop |-> <<"x">>,
      nomod |-> <<"x">>, bad |-> <<"x">>, lib |-> <<"x">>,
      Tracer_enter |-> <<"self">>,
      Tracer_exit |-> <<"self", "exc_type", "exc_value", "traceback">>,
      get_tool_id |-> <<>> ]

\* Whether the code unit is a generator function: its frame can be
\* suspended and resumed (PY_YIELD and PY_RESUME are not subscribed to).
IsGenerator(code) == code = "g"

Fullname(module, qualname) == <<module, qualname>>

Param(name, annotation) == [name |-> name, annotation |-> annotation]

Signature(parameters, return_annotation) ==
    [parameters |-> parameters, return_annotation |-> return_annotation]

\* sys.modules[fullname.module] followed by _get_object(module, qualname):
\* the object found (callable or not, with the signature inspect.signature
\* gives and the overloads typing.get_overloads gives), or the exception.
\* f: (x: int) -> str;  h: (x: int | None) -> bool;  n: (x) -> Never;
\* g: (x: int) -> Any;  ov: overloads (x: int, y: str) -> str and
\* (x: object, y: object) -> str.  Of the controller's module:
\* Tracer.__enter__: (self) -> Self;  _get_tool_id: () -> int;
\* Tracer.__exit__: (self, exc_type, exc_value, traceback) -> None.
_get_object(fullname) ==
    CASE fullname = Fullname("app", "f") ->
            [raised |-> "none", callable |-> TRUE, overloads |-> <<>>,
             signature |-> Signature(<<Param("x", AnnType("int"))>>, AnnType("str"))]
      [] fullname = Fullname("app", "h") ->
            [raised |-> "none", callable |-> TRUE, overloads |-> <<>>,
             signature |-> Signature(
                 <<Param("x", AnnUnion(<<AnnType("int"), AnnNone>>))>>,
                 AnnType("bool"))]
      [] fullname = Fullname("app", "n") ->
            [raised |-> "none", callable |-> TRUE, overloads |-> <<>>,
             signature |-> Signature(<<Param("x", AnnEmpty)>>, AnnNever)]
      [] fullname = Fullname("app", "g") ->
            [raised |-> "none", callable |-> TRUE, overloads |-> <<>>,
             signature |-> Signature(<<Param("x", AnnType("int"))>>, AnnAny)]
      [] fullname = Fullname("app", "ov") ->
            [raised |-> "none", callable |-> TRUE,
             overloads |-> <<
                 Signature(<<Param("x", AnnType("int")), Param("y", AnnType("str"))>>,
                           AnnType("str")),
                 Signature(<<Param("x", AnnType("object")),
                             Param("y", AnnType("object"))>>,
                           AnnType("str")) >>,
             signature |-> Signature(<<Param("x", AnnEmpty), Param("y", AnnEmpty)>>,
                                     AnnEmpty)]
      [] fullname = Fullname("app", "C.p") ->
            [raised |-> "none", callable |-> FALSE, overloads |-> <<>>,
             signature |-> Signature(<<>>, AnnEmpty)]
      [] fullname = Fullname("bad", "bad") ->
            [raised |-> "none", callable |-> TRUE, overloads |-> <<>>,
             signature |-> Signature(<<Param("x", AnnEmpty)>>, AnnEmpty)]
      [] fullname = Fullname("apicov.sysmon", "Tracer.__enter__") ->
            [raised |-> "none", callable |-> TRUE, overloads |-> <<>>,
             signature |-> Signature(<<Param("self", AnnEmpty)>>, AnnSelf)]
      [] fullname = Fullname("apicov.sysmon", "_get_tool_id") ->
            [raised |-> "none", callable |-> TRUE, overloads |-> <<>>,
             signature |-> Signature(<<>>, AnnType("int"))]
      [] fullname = Fullname("apicov.sysmon", "Tracer.__exit__") ->
            [raised |-> "none", callable |-> TRUE, overloads |-> <<>>,
             signature |-> Signature(
                 <<Param("self", AnnEmpty), Param("exc_type", AnnEmpty),
                   Param("exc_value", AnnEmpty), Param("traceback", AnnEmpty)>>,
                 AnnNone)]
      [] OTHER -> [raised |-> "AttributeError"]

\* The inclusion filter handed to the controller, by file name: the entry
\* point's should_trace rejects "<...>" pseudo-files and the standard
\* library; a ShouldTraceFn may also raise ("bad.py" stands for a file
\* name on which it does).
should_trace(filename) ==
    CASE filename = "bad.py" -> [raised |-> "FilterError", value |-> FALSE]
      [] filename = "<frozen importlib>" -> [raised |-> "none", value |-> FALSE]
      [] OTHER -> [raised |-> "none", value |-> TRUE]

\* ------------------------------------------------------------------------
\* func_tracer.py: Overload
\* ------------------------------------------------------------------------

\* Overload._get_param_annotation(index, param, encapsulating_class);
\* encapsulating_class "" is None.  index counts from 0.
_get_param_annotation(index, param, encapsulating_class, oid) ==
    IF (param.annotation = AnnSelf \/ (index = 0 /\ param.name = "self"))
       /\ encapsulating_class # ""
    THEN SelfAnnotation(encapsulating_class, oid)
    ELSE IF param.annotation = AnnEmpty THEN NoAnnotation(oid)
    ELSE get_annotation(param.annotation, oid)

\* Overload._get_return_annotation(signature, encapsulating_class)
_get_return_annotation(signature, encapsulating_class, oid) ==
    IF signature.return_annotation = AnnSelf /\ encapsulating_class # ""
    THEN SelfAnnotation(encapsulating_class, oid)
    ELSE IF signature.return_annotation = AnnEmpty THEN NoAnnotation(oid)
    ELSE get_annotation(signature.return_annotation, oid)

\* Overload.from_callable(func, encapsulating_class): oid is the identity
\* of the Overload object built.
Overload_from_callable(signature, encapsulating_class, oid) ==
    [ oid |-> oid,
      signature |-> signature,
      param_annotations |->
          [i \in 1..Len(signature.parameters) |->
              _get_param_annotation(i - 1, signature.parameters[i],
                                    encapsulating_class, Append(oid, i))],
      return_annotation |->
          _get_return_annotation(signature, encapsulating_class, Append(oid, 0)) ]

\* frame.f_locals[name]
f_locals_get(f_locals, name) ==
    f_locals[CHOOSE i \in 1..Len(f_locals) : f_locals[i].name = name].value

\* Overload.match(frame): [ok |-> FALSE] is None, otherwise the tuple of
\* the parameters' matches.  The loop returns at the first parameter that
\* does not match.
RECURSIVE Overload_match_from(_, _, _, _)
Overload_match_from(overload, f_locals, i, matches) ==
    IF i > Len(overload.param_annotations)
    THEN [ok |-> TRUE, matches |-> matches]
    ELSE LET Checked(m) ==
                 IF m = NoMatch
                 THEN [ok |-> FALSE, matches |-> <<>>]
                 ELSE Overload_match_from(overload, f_locals, i + 1,
                                          Append(matches, m))
         IN  Checked(match(overload.param_annotations[i],
                           f_locals_get(f_locals,
                                        overload.signature.parameters[i].name)))

Overload_match(overload, f_locals) == Overload_match_from(overload, f_locals, 1, <<>>)

\* ------------------------------------------------------------------------
\* func_tracer.py: FuncTracer
\* ------------------------------------------------------------------------

\* The key stored again even when it is already present.
dict_setitem_again(d, key) == Append(d, key)

\* d[key] = None on a dict used as an insertion-ordered set: a key already
\* present keeps its place, a new key goes last.
dict_setitem(d, key) ==
    IF \E i \in 1..Len(d) : d[i] = key THEN d ELSE Append(d, key)

\* The callables FuncTracer.from_callable builds overloads from:
\* get_overloads(func) or [func].
overloads_or_func(func) ==
    IF Len(func.overloads) > 0 THEN func.overloads ELSE <<func.signature>>

\* FuncTracer.from_callable(func, encapsulating_class): one Overload per
\* declared overload, or one for the function itself; all records empty.
\* tid is the identity of the FuncTracer object built.
FuncTracer_from_callable(func, encapsulating_class, tid) ==
    [ matched_calls |->
          [k \in 1..Len(overloads_or_func(func)) |->
              [overload |-> Overload_from_callable(overloads_or_func(func)[k],
                                                   encapsulating_class, <<tid, k>>),
               calls |-> <<>>]],
      unmatched_calls |-> <<>> ]

\* Start keys: (overload, matches), (None, args_str), and the None the
\* controller pushes for a code unit without tracer.
MatchedKey(overload, matches) ==
    [kind |-> "matched", overload |-> overload, matches |-> matches]

UnmatchedKey(args_str) == [kind |-> "unmatched", args_str |-> args_str]

NoneKey == [kind |-> "None"]

\* ", ".join(f"{k}={v!r}" for k, v in frame.f_locals.items()), from the
\* i-th local on: the text, or the exception a repr raised.
RECURSIVE args_str_from(_, _)
args_str_from(f_locals, i) ==
    IF i > Len(f_locals) THEN [raised |-> "none", text |-> ""]
    ELSE IF ValueRepr[f_locals[i].value].raised # "none"
    THEN ValueRepr[f_locals[i].value]
    ELSE LET Joined(rest) ==
                 IF rest.raised # "none" THEN rest
                 ELSE [raised |-> "none",
                       text |-> f_locals[i].name \o "="
                                \o ValueRepr[f_locals[i].value].text
                                \o (IF i < Len(f_locals) THEN ", " ELSE "")
                                \o rest.text]
         IN  Joined(args_str_from(f_locals, i + 1))

\* The order in which FuncTracer.on_start tries the overloads: the order
\* of the keys of matched_calls, which is the declaration order.
OverloadOrderReversed(n) == [k \in 1..n |-> n + 1 - k]

OverloadOrder(n) == [k \in 1..n |-> k]

\* The key on_start returns when no overload matches.
unmatched_start(r) ==
    IF r.raised # "none" THEN [raised |-> r.raised, key |-> NoneKey]
    ELSE [raised |-> "none", key |-> UnmatchedKey(r.text)]

\* FuncTracer.on_start(frame): [raised, key].
RECURSIVE on_start_from(_, _, _, _)
on_start_from(ft, f_locals, order, j) ==
    IF j > Len(order)
    THEN unmatched_start(args_str_from(f_locals, 1))
    ELSE LET Tried(overload, matches) ==
                 IF matches.ok
                 THEN [raised |-> "none",
                       key |-> MatchedKey(overload.oid, matches.matches)]
                 ELSE on_start_from(ft, f_locals, order, j + 1)
         IN  Tried(ft.matched_calls[order[j]].overload,
                   Overload_match(ft.matched_calls[order[j]].overload, f_locals))

on_start(ft, f_locals) ==
    on_start_from(ft, f_locals, OverloadOrder(Len(ft.matched_calls)), 1)

\* Whether the overload is a key of the tracer's matched_calls.
has_overload(ft, overload) ==
    \E k \in 1..Len(ft.matched_calls) : ft.matched_calls[k].overload.oid = overload

\* The place of the overload among the keys of matched_calls.
overload_index(ft, overload) ==
    CHOOSE k \in 1..Len(ft.matched_calls) :
        ft.matched_calls[k].overload.oid = overload

\* self.matched_calls[overload][matched_key] = None
matched_calls_record(ft, overload, matched_key) ==
    [raised |-> "none",
     ft |-> [ft EXCEPT !.matched_calls[overload_index(ft, overload)].calls =
                dict_setitem(@, matched_key)]]

\* The unmatched call dropped instead of recorded.
unmatched_calls_dropped(ft, args_str, outcome, r) ==
    [raised |-> r.raised, ft |-> ft]

\* self.unmatched_calls[(args_str, outcome, repr)] = None, or the
\* exception the repr raised.
unmatched_calls_record(ft, args_str, outcome, r) ==
    IF r.raised # "none" THEN [raised |-> r.raised, ft |-> ft]
    ELSE [raised |-> "none",
          ft |-> [ft EXCEPT !.unmatched_calls =
                     dict_setitem(@, <<args_str, outcome, r.text>>)]]

\* The return annotation of the overload a matched key names.
return_annotation_of(ft, overload) ==
    ft.matched_calls[overload_index(ft, overload)].overload.return_annotation

\* The third component of a matched tuple: None, or the exception's repr.
NoRepr == <<>>

\* The tuple on_return stores for a call that matched an overload.
ReturnTuple(matches, return_match) == <<matches, return_match, NoRepr>>

\* The tuple of on_unwind without the exception's repr.
UnwindTuple_unlabelled(matches, return_match, text) == <<matches, return_match, NoRepr>>

\* The tuple on_unwind stores for a call that matched an overload.
UnwindTuple(matches, return_match, text) == <<matches, return_match, <<text>>>>

\* on_return sending a return value that does not satisfy the return
\* schema to the unmatched bucket.
on_return_mismatch_unmatched(ft, key, retval) ==
    IF key.kind = "matched"
    THEN IF ~has_overload(ft, key.overload)
         THEN [raised |-> "KeyError", ft |-> ft]
         ELSE IF match(return_annotation_of(ft, key.overload), retval) = NoMatch
         THEN unmatched_calls_record(ft, "", "return", ValueRepr[retval])
         ELSE matched_calls_record(
                  ft, key.overload,
                  ReturnTuple(key.matches,
                              match(return_annotation_of(ft, key.overload), retval)))
    ELSE IF key.kind = "unmatched"
    THEN unmatched_calls_record(ft, key.args_str, "return", ValueRepr[retval])
    ELSE [raised |-> "TypeError", ft |-> ft]

\* FuncTracer.on_return(key, retval): [raised, ft].
on_return(ft, key, retval) ==
    IF key.kind = "matched"
    THEN IF has_overload(ft, key.overload)
         THEN matched_calls_record(
                  ft, key.overload,
                  ReturnTuple(key.matches,
                              match(return_annotation_of(ft, key.overload), retval)))
         ELSE [raised |-> "KeyError", ft |-> ft]
    ELSE IF key.kind = "unmatched"
    THEN unmatched_calls_record(ft, key.args_str, "return", ValueRepr[retval])
    ELSE [raised |-> "TypeError", ft |-> ft]

\* FuncTracer.on_unwind(key, exception): [raised, ft].
on_unwind(ft, key, exc) ==
    IF key.kind = "matched"
    THEN IF ~has_overload(ft, key.overload)
         THEN [raised |-> "KeyError", ft |-> ft]
         ELSE IF ExceptionRepr(exc).raised # "none"
         THEN [raised |-> ExceptionRepr(exc).raised, ft |-> ft]
         ELSE matched_calls_record(
                  ft, key.overload,
                  UnwindTuple(key.matches,
                              match_unwind(return_annotation_of(ft, key.overload), exc),
                              ExceptionRepr(exc).text))
    ELSE IF key.kind = "unmatched"
    THEN unmatched_calls_record(ft, key.args_str, "unwind", ExceptionRepr(exc))
    ELSE [raised |-> "TypeError", ft |-> ft]

\* ------------------------------------------------------------------------
\* sysmon.py: the state of the controller and of the host
\* ------------------------------------------------------------------------

VARIABLES
    \* sysmon.Tracer
    _get_func_tracer,   \* the tracer factory handed to __init__
    traced_funcs,       \* Fullname -> FuncTracer (its identity)
    _known_codes,       \* code -> FuncTracer identity, or NoTracer
    _call_stack,        \* sequence of (code, tracer, key) entries
    tool_id,            \* the slot claimed by the last __enter__
    \* func_tracer.FuncTracer objects, by identity (order of creation)
    func_tracers,
    \* sys.monitoring
    tools,              \* slot -> name of the tool that holds it, "" if free
    events,             \* whether the controller's events are enabled
    \* the monitored program
    program,            \* which code units it calls, with which values
    frames,             \* its call stack: the frames running
    suspended,          \* the generator frames that yielded
    exception,          \* the exception propagating in it, or NoException
    \* observation
    ncalls,             \* number of calls made so far
    last,               \* the last event and what its handler did
    history,            \* the tracer callbacks invoked so far
    completed,          \* the calls that returned: code, locals, value
    flags,              \* what has happened in this run
    pure,               \* the pure function applied and its result
    \* a second controller of the same program
    peer                \* where it is in its __enter__ or __exit__, its slot

vars == <<_get_func_tracer, traced_funcs, _known_codes, _call_stack, tool_id,
          func_tracers, tools, events, program, frames, suspended, exception,
          ncalls, last, history, completed, flags, pure, peer>>

\* None, for a tracer reference.
NoTracer == 0

NoException == "none"

\* A function with one more key (d[k] = v on a dict).
dict_set(d, k, v) == [x \in DOMAIN d \cup {k} |-> IF x = k THEN v ELSE d[x]]

EmptyDict == [x \in {} |-> NoTracer]

\* The part of the state the callbacks read and write.
Self ==
    [ traced_funcs |-> traced_funcs, _known_codes |-> _known_codes,
      _call_stack |-> _call_stack, func_tracers |-> func_tracers ]

\* An entry of the call stack.  cid is not in the code: it names the call
\* whose enter event pushed the entry, for the statements about pairing.
StackEntry(code, tracer, key, cid) ==
    [code |-> code, tracer |-> tracer, key |-> key, cid |-> cid]

\* A tracer callback invoked by a handler (kept in the history): op with
\* the key it returned or was given and its other argument, for the call
\* cid, invoked at an event of the call by; raised is what it raised.
Callback(op, tracer, key, arg, cid, by, raised) ==
    [op |-> op, tracer |-> tracer, key |-> key, arg |-> arg, cid |-> cid,
     by |-> by, raised |-> raised]

\* What a handler did: the state it left, what it raised, the tracer
\* callbacks it invoked.
Outcome(s, raised, callbacks) == [s |-> s, raised |-> raised, callbacks |-> callbacks]

\* FuncTracer.from_callable takes (func, encapsulating_class).
from_callable_parameters == {"func", "encapsulating_class"}

\* self._get_func_tracer(obj): the factory is FuncTracer.from_callable with
\* the keyword arguments bound at construction; a call that does not bind
\* every parameter raises TypeError.
get_func_tracer_call(factory, obj, tid) ==
    IF {"func"} \cup DOMAIN factory.keywords # from_callable_parameters
    THEN [raised |-> "TypeError"]
    ELSE [raised |-> "none",
          tracer |-> FuncTracer_from_callable(
                         obj, factory.keywords["encapsulating_class"], tid)]

\* The end of Tracer._new_func_tracer: the tracer the factory made, or
\* None when it raised.
made_tracer(s, made, tid) ==
    IF made.raised # "none" THEN [s |-> s, tracer |-> NoTracer]
    ELSE [s |-> [s EXCEPT !.func_tracers = Append(@, made.tracer)], tracer |-> tid]

\* The try block of Tracer._new_func_tracer, on the object found.
try_get_func_tracer(s, obj) ==
    IF obj.raised # "none" THEN [s |-> s, tracer |-> NoTracer]
    ELSE IF ~obj.callable THEN [s |-> s, tracer |-> NoTracer]
    ELSE made_tracer(s,
                     get_func_tracer_call(_get_func_tracer, obj,
                                          Len(s.func_tracers) + 1),
                     Len(s.func_tracers) + 1)

\* A tracer built for the name whether or not the map holds one.
_new_func_tracer_anew(s, fullname) == try_get_func_tracer(s, _get_object(fullname))

\* Tracer._new_func_tracer(fullname): [s, tracer].
_new_func_tracer(s, fullname) ==
    IF fullname \in DOMAIN s.traced_funcs
    THEN [s |-> s, tracer |-> s.traced_funcs[fullname]]
    ELSE try_get_func_tracer(s, _get_object(fullname))

\* if tracer is not None: self.traced_funcs[fullname] = tracer
\* self._known_codes[code] = tracer
remember(r, code, fullname) ==
    [r.s EXCEPT !.traced_funcs = IF r.tracer # NoTracer
                                 THEN dict_set(@, fullname, r.tracer) ELSE @,
                !._known_codes = dict_set(@, code, r.tracer)]

\* The first part of Tracer._start_callback_inner: resolve a code unit not
\* seen before and remember the result.
resolve(s, code) ==
    IF code \in DOMAIN s._known_codes THEN s
    ELSE IF Code[code].module = ""
    THEN [s EXCEPT !._known_codes = dict_set(@, code, NoTracer)]
    ELSE remember(_new_func_tracer(s, Fullname(Code[code].module,
                                               Code[code].co_qualname)),
                  code, Fullname(Code[code].module, Code[code].co_qualname))

\* The entry appended before on_start is known to have returned.
append_started_early(s, code, tracer, frame, r) ==
    Outcome([s EXCEPT !._call_stack =
                Append(@, StackEntry(code, tracer, r.key, frame.cid))],
            r.raised,
            <<Callback("on_start", tracer, r.key, frame.f_locals, frame.cid, frame.cid,
                       r.raised)>>)

\* self._call_stack.append((code, tracer, key)), after tracer.on_start
\* returned r (nothing is appended when it raised).
append_started(s, code, tracer, frame, r) ==
    IF r.raised # "none"
    THEN Outcome(s, r.raised,
                 <<Callback("on_start", tracer, r.key, frame.f_locals, frame.cid, frame.cid,
                            r.raised)>>)
    ELSE Outcome([s EXCEPT !._call_stack =
                     Append(@, StackEntry(code, tracer, r.key, frame.cid))],
                 "none",
                 <<Callback("on_start", tracer, r.key, frame.f_locals, frame.cid, frame.cid,
                            "none")>>)

\* The second part of Tracer._start_callback_inner.
start_known(s, code, frame) ==
    IF s._known_codes[code] = NoTracer
    THEN Outcome([s EXCEPT !._call_stack =
                     Append(@, StackEntry(code, NoTracer, NoneKey, frame.cid))],
                 "none", <<>>)
    ELSE append_started(s, code, s._known_codes[code], frame,
                        on_start(s.func_tracers[s._known_codes[code]],
                                 frame.f_locals))

\* Tracer._start_callback_inner(code); frame is the monitored frame.
_start_callback_inner(s, code, frame) == start_known(resolve(s, code), code, frame)

\* What the except clauses of the callbacks turn an exception into:
\* _start_callback and _return_callback raise MonitoringCallbackError from
\* it, _unwind_callback has no except clause.
unwrapped(outcome) == outcome

wrap(outcome) ==
    IF outcome.raised # "none"
    THEN [outcome EXCEPT !.raised = MonitoringCallbackError]
    ELSE outcome

\* Tracer._start_callback(code, instruction_offset)
_start_callback(s, code, frame) ==
    wrap(IF code = "Tracer_exit" THEN Outcome(s, "none", <<>>)
         ELSE IF should_trace(Code[code].co_filename).raised # "none"
         THEN Outcome(s, should_trace(Code[code].co_filename).raised, <<>>)
         ELSE IF ~should_trace(Code[code].co_filename).value
         THEN Outcome(s, "none", <<>>)
         ELSE _start_callback_inner(s, code, frame))

\* self._call_stack.pop(): the entry taken and the stack left.
popleft(stack) == [entry |-> stack[1], rest |-> Tail(stack)]

pop(stack) == [entry |-> stack[Len(stack)], rest |-> SubSeq(stack, 1, Len(stack) - 1)]

\* traced_func.on_return(key, retval) or traced_func.on_unwind(key, exception)
dispatch(ft, op, key, value) ==
    IF op = "on_return" THEN on_return(ft, key, value) ELSE on_unwind(ft, key, value)

\* The tracer's callback returned r: the tracer is left as the callback
\* left it.
dispatched(s, e, op, value, by, r) ==
    Outcome([s EXCEPT !.func_tracers[e.tracer] = r.ft], r.raised,
            <<Callback(op, e.tracer, e.key, value, e.cid, by, r.raised)>>)

\* The dispatch without the identity assertion.
check_popped_unasserted(s, e, code, op, value, by) ==
    IF e.tracer = NoTracer THEN Outcome(s, "none", <<>>)
    ELSE dispatched(s, e, op, value, by, dispatch(s.func_tracers[e.tracer], op, e.key, value))

\* assert started_code is code; if traced_func is not None: call it.
\* e is the entry popped, s the state with the stack left.
check_popped(s, e, code, op, value, by) ==
    IF e.code # code THEN Outcome(s, "AssertionError", <<>>)
    ELSE IF e.tracer = NoTracer THEN Outcome(s, "none", <<>>)
    ELSE dispatched(s, e, op, value, by, dispatch(s.func_tracers[e.tracer], op, e.key, value))

\* The body shared by _return_callback_inner and _unwind_callback: pop,
\* assert the identity, call the tracer.  op is "on_return" or "on_unwind",
\* value the returned value or the exception, by the exiting call.
pop_and_dispatch(s, code, op, value, by) ==
    IF s._call_stack = <<>> THEN Outcome(s, "IndexError", <<>>)
    ELSE check_popped([s EXCEPT !._call_stack = pop(s._call_stack).rest],
                      pop(s._call_stack).entry, code, op, value, by)

\* Tracer._return_callback_inner(code, retval)
_return_callback_inner(s, code, retval, by) ==
    pop_and_dispatch(s, code, "on_return", retval, by)

\* The normal-exit handler without the inclusion filter.
_return_callback_unfiltered(s, code, retval, by) ==
    wrap(IF code = "Tracer_enter" THEN Outcome(s, "none", <<>>)
         ELSE _return_callback_inner(s, code, retval, by))

\* Tracer._return_callback(code, instruction_offset, retval)
_return_callback(s, code, retval, by) ==
    wrap(IF code = "Tracer_enter" THEN Outcome(s, "none", <<>>)
         ELSE IF should_trace(Code[code].co_filename).raised # "none"
         THEN Outcome(s, should_trace(Code[code].co_filename).raised, <<>>)
         ELSE IF ~should_trace(Code[code].co_filename).value
         THEN Outcome(s, "none", <<>>)
         ELSE _return_callback_inner(s, code, retval, by))

\* The exceptional-exit handler without the skip of the marker.
_unwind_callback_unskipped(s, code, exc, by) ==
    unwrapped(IF should_trace(Code[code].co_filename).raised # "none"
              THEN Outcome(s, should_trace(Code[code].co_filename).raised, <<>>)
              ELSE IF ~should_trace(Code[code].co_filename).value
              THEN Outcome(s, "none", <<>>)
              ELSE pop_and_dispatch(s, code, "on_unwind", exc, by))

\* Tracer._unwind_callback(code, instruction_offset, exception)
_unwind_callback(s, code, exc, by) ==
    unwrapped(IF exc = MonitoringCallbackError THEN Outcome(s, "none", <<>>)
              ELSE IF should_trace(Code[code].co_filename).raised # "none"
              THEN Outcome(s, should_trace(Code[code].co_filename).raised, <<>>)
              ELSE IF ~should_trace(Code[code].co_filename).value
              THEN Outcome(s, "none", <<>>)
              ELSE pop_and_dispatch(s, code, "on_unwind", exc, by))

\* _sm.COVERAGE_ID
COVERAGE_ID == 1

\* tool_ids = [_sm.COVERAGE_ID, 3, 4]
tool_ids == <<COVERAGE_ID, 3, 4>>

\* The coverage slot whether or not it is free.
_get_tool_id_unasked(pool) == COVERAGE_ID

\* The last free slot in tool_ids instead of the first.
_get_tool_id_last(pool) ==
    IF \A i \in 1..Len(tool_ids) : pool[tool_ids[i]] # "" THEN 0
    ELSE tool_ids[CHOOSE i \in 1..Len(tool_ids) :
                      /\ pool[tool_ids[i]] = ""
                      /\ \A j \in (i + 1)..Len(tool_ids) : pool[tool_ids[j]] # ""]

\* _get_tool_id(): the first free slot in tool_ids; 0 stands for the
\* RuntimeError raised when none is free.
_get_tool_id(pool) ==
    IF \A i \in 1..Len(tool_ids) : pool[tool_ids[i]] # "" THEN 0
    ELSE tool_ids[CHOOSE i \in 1..Len(tool_ids) :
                      /\ pool[tool_ids[i]] = ""
                      /\ \A j \in 1..(i - 1) : pool[tool_ids[j]] # ""]

\* ------------------------------------------------------------------------
\* The monitored programs and the tracer factories
\* ------------------------------------------------------------------------

\* The factory as the entry point passes it (cli.main): the classmethod
\* FuncTracer.from_callable itself, nothing bound.
FactoryCli == [keywords |-> [x \in {} |-> ""]]

\* FuncTracer.from_callable with encapsulating_class=None bound.
FactoryBound == [keywords |-> [encapsulating_class |-> ""]]

Program(codes, args, rets, raises, factory, busy, peers) ==
    [codes |-> codes, args |-> args, rets |-> rets, raises |-> raises,
     factory |-> factory, busy |-> busy, peers |-> peers]

\* The runs explored: each is a set of code units the program calls, the
\* values it passes and returns, the exceptions it raises, the factory the
\* controller was built with, the slots other tools hold, and whether it
\* activates a second controller inside the session of the first.
Programs ==
    { Program({"f"}, {"v5", "vBad"}, {"vBad", "vNone"}, {"ValueError"},
              FactoryBound, {}, FALSE),
      Program({"h"}, {"v5", "vNone", "vBad"}, {"vTrue"}, {}, FactoryBound, {}, FALSE),
      Program({"h"}, {"v5", "vNone"}, {"vTrue"}, {}, FactoryCli, {}, FALSE),
      Program({"n"}, {"v5"}, {"vNone"}, {"ValueError"}, FactoryBound, {}, FALSE),
      Program({"ov"}, {"v5", "vBad"}, {"vBad"}, {}, FactoryBound, {}, FALSE),
      Program({"g", "body"}, {"v5"}, {"v5"}, {"ValueError"}, FactoryBound, {}, FALSE),
      Program({"g"}, {"v5", "vBad"}, {"v5"}, {}, FactoryBound, {}, FALSE),
      Program({"f", "lib", "bad"}, {"v5"}, {"vBad"}, {"ValueError"},
              FactoryBound, {COVERAGE_ID}, FALSE),
      Program({"f", "prop", "nomod"}, {"vWeird"}, {"vWeird"}, {"WeirdError"},
              FactoryBound, {}, FALSE),
      Program({"f"}, {"vBad"}, {"vWeird"}, {"WeirdError"}, FactoryBound, {}, FALSE),
      Program({"f", "f_again"}, {"v5"}, {"vBad"}, {}, FactoryBound,
              {COVERAGE_ID, 3, 4}, FALSE),
      Program({"f", "f_again", "nomod"}, {"v5"}, {"vBad"}, {}, FactoryBound, {3}, FALSE),
      Program({"f"}, {"v5"}, {"vBad"}, {}, FactoryBound, {3}, TRUE),
      Program({"f"}, {"v5"}, {"vBad"}, {}, FactoryBound, {3, 4}, TRUE) }

ToolIds == 0..5

\* ------------------------------------------------------------------------
\* Actions
\* ------------------------------------------------------------------------

Frame(code, cid, f_locals) ==
    [code |-> code, cid |-> cid, f_locals |-> f_locals, state |-> "running"]

\* An event and what its handler did: the call stack it found, what it
\* raised, the tracer callbacks it invoked.
Event(event, code, by, value, raised, callbacks) ==
    [event |-> event, code |-> code, by |-> by, value |-> value,
     stack |-> _call_stack, raised |-> raised, callbacks |-> callbacks]

\* Write back the part of the state a handler worked on, and note what it did.
Store(outcome, event, code, by, value) ==
    /\ traced_funcs' = outcome.s.traced_funcs
    /\ _known_codes' = outcome.s._known_codes
    /\ _call_stack' = outcome.s._call_stack
    /\ func_tracers' = outcome.s.func_tracers
    /\ last' = Event(event, code, by, value, outcome.raised, outcome.callbacks)
    /\ history' = history \o outcome.callbacks
    /\ flags' = [flags EXCEPT !.failed = @ \/ outcome.raised # "none",
                              !.own = @ \/ code \in {"Tracer_enter", "Tracer_exit"}]

Top == frames[Len(frames)]

\* The second controller outside its __enter__ and __exit__, not active.
PeerIdle == [pc |-> "idle", tool_id |-> 0, depth |-> 0]

\* A method of a controller is running: the frame on top is __enter__,
\* __exit__ or _get_tool_id.
InController ==
    /\ frames # <<>>
    /\ Top.code \in {"Tracer_enter", "Tracer_exit", "get_tool_id"}

Init ==
    /\ program \in Programs
    /\ _get_func_tracer = program.factory
    /\ traced_funcs = EmptyDict
    /\ _known_codes = EmptyDict
    /\ _call_stack = <<>>
    /\ tool_id = 0
    /\ func_tracers = <<>>
    /\ tools = [i \in ToolIds |-> IF i \in program.busy THEN "other" ELSE ""]
    /\ events = FALSE
    /\ frames = <<>>
    /\ suspended = {}
    /\ exception = NoException
    /\ ncalls = 0
    /\ last = Event("init", "", 0, "", "none", <<>>)
    /\ history = <<>>
    /\ completed = {}
    /\ flags = [failed |-> FALSE, yielded |-> FALSE, own |-> FALSE, first |-> 1]
    /\ pure = [op |-> "none"]
    /\ peer = PeerIdle

\* The locals of a new frame of the code unit, called with vals.
Locals(code, vals) ==
    [i \in 1..Len(CodeParams[code]) |-> [name |-> CodeParams[code][i], value |-> vals[i]]]

\* The locals of a frame of __exit__ called with the exception exc, or
\* with None.
ExitLocals(exc) ==
    <<[name |-> "self", value |-> "vTracer"],
      [name |-> "exc_type", value |-> IF exc = NoException THEN "vNone" ELSE exc],
      [name |-> "exc_value", value |-> IF exc = NoException THEN "vNone" ELSE exc],
      [name |-> "traceback", value |-> IF exc = NoException THEN "vNone" ELSE exc]>>

\* Tracer.__enter__, with the return event of __enter__ itself, which the
\* host delivers once the events are enabled.
Activate ==
    /\ ~events
    /\ IF _get_tool_id(tools) = 0
       THEN /\ _call_stack' = <<>>
            /\ last' = Event("__enter__", "Tracer_enter", 0, "", "RuntimeError", <<>>)
            /\ UNCHANGED <<traced_funcs, _known_codes, func_tracers, tool_id,
                           tools, events, history, flags, exception>>
       ELSE LET Entered(r) ==
                    /\ traced_funcs' = r.s.traced_funcs
                    /\ _known_codes' = r.s._known_codes
                    /\ _call_stack' = r.s._call_stack
                    /\ func_tracers' = r.s.func_tracers
                    /\ last' = Event("__enter__", "Tracer_enter", 0, "", r.raised,
                                     r.callbacks)
                    /\ history' = history \o r.callbacks
                    /\ flags' = [failed |-> r.raised # "none", yielded |-> FALSE,
                                 own |-> FALSE, first |-> ncalls + 1]
                    /\ exception' = r.raised
            IN  /\ Entered(_return_callback([Self EXCEPT !._call_stack = <<>>],
                                            "Tracer_enter", "vTracer", 0))
                /\ tool_id' = _get_tool_id(tools)
                /\ tools' = [tools EXCEPT ![_get_tool_id(tools)] = "apicov"]
                /\ events' = TRUE
    /\ frames' = <<>>
    /\ suspended' = {}
    /\ UNCHANGED <<_get_func_tracer, program, ncalls, completed, pure, peer>>

\* The slot left held.
free_tool_id_kept(pool, slot) == pool

\* _sm.free_tool_id(self.tool_id)
free_tool_id(pool, slot) == [pool EXCEPT ![slot] = ""]

\* The assertion on the call stack made whatever the scope is left with.
exit_raises_unconditionally(r, exc_type) ==
    IF r.raised # "none" THEN r.raised
    ELSE IF r.s._call_stack # <<>> THEN "AssertionError"
    ELSE "none"

\* What Tracer.__exit__ raises: the enter callback's exception, or the
\* assertion on the call stack.
exit_raises(r, exc_type) ==
    IF r.raised # "none" THEN r.raised
    ELSE IF exc_type # MonitoringCallbackError /\ r.s._call_stack # <<>>
    THEN "AssertionError"
    ELSE "none"

\* Tracer.__exit__(exc_type, ...), with the enter event of __exit__ itself,
\* which the host delivers before the body runs.  The scoped region ends
\* when no frame started in it is running, after the region of a second
\* controller activated inside it.
Deactivate ==
    /\ events
    /\ frames = <<>>
    /\ peer.pc = "idle"
    /\ LET Exited(r) ==
               /\ traced_funcs' = r.s.traced_funcs
               /\ _known_codes' = r.s._known_codes
               /\ _call_stack' = r.s._call_stack
               /\ func_tracers' = r.s.func_tracers
               /\ last' = Event("__exit__", "Tracer_exit", 0, exception,
                                exit_raises(r, exception), r.callbacks)
               /\ history' = history \o r.callbacks
               /\ IF r.raised # "none"
                  THEN UNCHANGED <<tools, events>>
                  ELSE /\ events' = FALSE
                       /\ tools' = free_tool_id(tools, tool_id)
       IN  Exited(_start_callback(Self, "Tracer_exit",
                                  Frame("Tracer_exit", 0, ExitLocals(exception))))
    /\ exception' = NoException
    /\ suspended' = {}
    /\ UNCHANGED <<_get_func_tracer, tool_id, program, frames, ncalls, completed, flags,
                   pure, peer>>

\* The host starts a frame of the code unit and delivers the enter event.
\* An exception the callback raises propagates from the start of the new
\* frame.
Enter(code, f_locals) ==
    /\ events
    /\ exception = NoException
    /\ ncalls < MaxCalls
    /\ LET Started(frame, r) ==
               /\ Store(r, "start", code, frame.cid, "")
               /\ frames' = Append(frames, IF r.raised # "none"
                                           THEN [frame EXCEPT !.state = "failed_start"]
                                           ELSE frame)
               /\ exception' = r.raised
       IN  Started(Frame(code, ncalls + 1, f_locals),
                   _start_callback(Self, code, Frame(code, ncalls + 1, f_locals)))
    /\ ncalls' = ncalls + 1
    /\ UNCHANGED <<_get_func_tracer, tool_id, events, program, suspended, completed, pure>>

\* The program calls a function.
Call(code, vals) ==
    /\ ~InController
    /\ Enter(code, Locals(code, vals))
    /\ UNCHANGED <<tools, peer>>

\* The running frame returns: the host delivers the normal-exit event and
\* leaves the frame, unless the callback raises into it.
Leave(retval) ==
    /\ events
    /\ exception = NoException
    /\ frames # <<>>
    /\ LET Returned(r) ==
               /\ Store(r, "return", Top.code, Top.cid, retval)
               /\ frames' = IF r.raised # "none" THEN frames
                            ELSE SubSeq(frames, 1, Len(frames) - 1)
               /\ exception' = r.raised
               /\ completed' = IF r.raised # "none" THEN completed
                               ELSE completed \cup {<<Top.code, Top.f_locals, retval>>}
       IN  Returned(_return_callback(Self, Top.code, retval, Top.cid))
    /\ UNCHANGED <<_get_func_tracer, tool_id, events, program, suspended, ncalls, pure>>

\* The running function of the program returns (after the region of the
\* second controller, if it holds one).
Return(retval) ==
    /\ ~InController
    /\ ~(peer.pc = "active" /\ Len(frames) = peer.depth)
    /\ Leave(retval)
    /\ UNCHANGED <<tools, peer>>

\* The running function raises (no event is subscribed for that).
Raise(exc) ==
    /\ events
    /\ exception = NoException
    /\ frames # <<>>
    /\ ~InController
    /\ exception' = exc
    /\ last' = Event("raise", Top.code, Top.cid, exc, "none", <<>>)
    /\ UNCHANGED <<_get_func_tracer, traced_funcs, _known_codes, _call_stack, tool_id,
                   func_tracers, tools, events, program, frames, suspended, ncalls,
                   history, completed, flags, pure, peer>>

\* The propagating exception leaves the running frame: the host delivers
\* the exceptional-exit event and drops the frame; an exception the
\* callback raises replaces the propagating one.  The frame that holds the
\* region of the second controller is not left before that region, and a
\* second controller whose __enter__ is left this way is not activated.
Unwind ==
    /\ events
    /\ exception # NoException
    /\ frames # <<>>
    /\ ~(peer.pc = "active" /\ Len(frames) = peer.depth)
    /\ peer' = IF Top.code = "Tracer_enter" THEN PeerIdle ELSE peer
    /\ LET Unwound(r) ==
               /\ Store(r, "unwind", Top.code, Top.cid, exception)
               /\ exception' = IF r.raised # "none" THEN r.raised ELSE exception
       IN  Unwound(_unwind_callback(Self, Top.code, exception, Top.cid))
    /\ frames' = SubSeq(frames, 1, Len(frames) - 1)
    /\ UNCHANGED <<_get_func_tracer, tool_id, tools, events, program, suspended,
                   ncalls, completed, pure>>

\* The running frame handles the propagating exception (a frame cannot
\* handle what its own enter event raised).
Catch ==
    /\ events
    /\ exception # NoException
    /\ frames # <<>>
    /\ Top.state = "running"
    /\ ~InController
    /\ exception' = NoException
    /\ last' = Event("catch", Top.code, Top.cid, exception, "none", <<>>)
    /\ UNCHANGED <<_get_func_tracer, traced_funcs, _known_codes, _call_stack, tool_id,
                   func_tracers, tools, events, program, frames, suspended, ncalls,
                   history, completed, flags, pure, peer>>

\* A generator frame yields: it leaves the stack of running frames without
\* any subscribed event.
Yield ==
    /\ events
    /\ exception = NoException
    /\ frames # <<>>
    /\ IsGenerator(Top.code)
    /\ frames' = SubSeq(frames, 1, Len(frames) - 1)
    /\ suspended' = suspended \cup {Top}
    /\ flags' = [flags EXCEPT !.yielded = TRUE]
    /\ last' = Event("yield", Top.code, Top.cid, "", "none", <<>>)
    /\ UNCHANGED <<_get_func_tracer, traced_funcs, _known_codes, _call_stack, tool_id,
                   func_tracers, tools, events, program, exception, ncalls,
                   history, completed, pure, peer>>

\* A suspended generator frame is resumed, again without subscribed event.
Resume(frame) ==
    /\ events
    /\ exception = NoException
    /\ ~InController
    /\ frame \in suspended
    /\ frames' = Append(frames, frame)
    /\ suspended' = suspended \ {frame}
    /\ last' = Event("resume", frame.code, frame.cid, "", "none", <<>>)
    /\ UNCHANGED <<_get_func_tracer, traced_funcs, _known_codes, _call_stack, tool_id,
                   func_tracers, tools, events, program, exception, ncalls,
                   history, completed, flags, pure, peer>>

\* The slot number as the value _get_tool_id returns.
ToolIdValue == [i \in {COVERAGE_ID, 3, 4} |-> IF i = COVERAGE_ID THEN "v1"
                                               ELSE IF i = 3 THEN "v3" ELSE "v4"]

\* A second controller (another Tracer of the same program, with the same
\* filter and factory) is activated inside the session: the host starts
\* the frame of its __enter__ and delivers the enter event.
PeerEnter ==
    /\ program.peers
    /\ peer.pc = "idle"
    /\ ~InController
    /\ Enter("Tracer_enter", Locals("Tracer_enter", <<"vTracer">>))
    /\ peer' = [pc |-> "enter", tool_id |-> 0, depth |-> Len(frames)]
    /\ UNCHANGED tools

\* Its __enter__ calls _get_tool_id().
PeerLookup ==
    /\ peer.pc = "enter"
    /\ frames # <<>>
    /\ Top.code = "Tracer_enter"
    /\ Enter("get_tool_id", <<>>)
    /\ peer' = [peer EXCEPT !.pc = "lookup"]
    /\ UNCHANGED tools

\* _get_tool_id returns the first free slot.
PeerFound ==
    /\ peer.pc = "lookup"
    /\ frames # <<>>
    /\ Top.code = "get_tool_id"
    /\ _get_tool_id(tools) # 0
    /\ Leave(ToolIdValue[_get_tool_id(tools)])
    /\ peer' = [peer EXCEPT !.pc = "found", !.tool_id = _get_tool_id(tools)]
    /\ UNCHANGED tools

\* _get_tool_id raises RuntimeError: no slot is free.
PeerNotFound ==
    /\ peer.pc = "lookup"
    /\ events
    /\ exception = NoException
    /\ frames # <<>>
    /\ Top.code = "get_tool_id"
    /\ _get_tool_id(tools) = 0
    /\ exception' = "RuntimeError"
    /\ last' = Event("raise", Top.code, Top.cid, "RuntimeError", "none", <<>>)
    /\ UNCHANGED <<_get_func_tracer, traced_funcs, _known_codes, _call_stack, tool_id,
                   func_tracers, tools, events, program, frames, suspended, ncalls,
                   history, completed, flags, pure, peer>>

\* The rest of its __enter__: the slot is claimed, the callbacks are
\* registered, the events enabled, and __enter__ returns.
PeerEntered ==
    /\ peer.pc = "found"
    /\ frames # <<>>
    /\ Top.code = "Tracer_enter"
    /\ tools' = [tools EXCEPT ![peer.tool_id] = "apicov"]
    /\ Leave("vTracer")
    /\ peer' = [peer EXCEPT !.pc = "active"]

\* The region of the second controller ends, in the frame it began in: the
\* host starts the frame of its __exit__ and delivers the enter event.
PeerExit ==
    /\ peer.pc = "active"
    /\ Len(frames) = peer.depth
    /\ Enter("Tracer_exit", ExitLocals(NoException))
    /\ peer' = [peer EXCEPT !.pc = "exit"]
    /\ UNCHANGED tools

\* Its __exit__ disables its events, frees its slot and returns (its own
\* call stack is empty: no generator is suspended in these runs).
PeerExited ==
    /\ peer.pc = "exit"
    /\ frames # <<>>
    /\ Top.code = "Tracer_exit"
    /\ tools' = free_tool_id(tools, peer.tool_id)
    /\ Leave("vNone")
    /\ peer' = PeerIdle

Next ==
    \/ Activate
    \/ Deactivate
    \/ PeerEnter
    \/ PeerLookup
    \/ PeerFound
    \/ PeerNotFound
    \/ PeerEntered
    \/ PeerExit
    \/ PeerExited
    \/ \E code \in program.codes :
          \E vals \in [1..Len(CodeParams[code]) -> program.args] : Call(code, vals)
    \/ \E retval \in program.rets : Return(retval)
    \/ \E exc \in program.raises : Raise(exc)
    \/ Unwind
    \/ Catch
    \/ Yield
    \/ \E frame \in suspended : Resume(frame)

Spec == Init /\ [][Next]_vars

\* ------------------------------------------------------------------------
\* The matching engine on its own: one application of a pure function
\* ------------------------------------------------------------------------

\* The annotations matched: those of tests/test_type_annotation.py (int,
\* str, int | str, None, Optional[int]) and unions whose members overlap.
DeclaredAnnotations ==
    { AnnType("int"), AnnType("str"), AnnNone, AnnAny, AnnNever,
      AnnOther("list[int]"),
      AnnUnion(<<AnnType("int"), AnnType("str")>>),
      AnnUnion(<<AnnType("int"), AnnNone>>),
      AnnUnion(<<AnnType("int"), AnnType("object")>>),
      AnnUnion(<<AnnType("object"), AnnType("int")>>),
      AnnUnion(<<AnnType("bool"), AnnType("int"), AnnType("object")>>),
      AnnUnion(<<AnnNever, AnnType("Foo"), AnnType("Bar")>>),
      AnnUnion(<<AnnType("str"), AnnAny, AnnNone>>) }

Pending == [kind |-> "Pending"]

\* annot = get_annotation(annotation); match = annot.match(value)
\* (test_type_annotation_match)
PureMatch ==
    /\ pure.op = "match"
    /\ pure.result = Pending
    /\ pure' = [pure EXCEPT !.result = match(get_annotation(pure.annotation, <<0>>),
                                             pure.value)]
    /\ UNCHANGED <<_get_func_tracer, traced_funcs, _known_codes, _call_stack, tool_id,
                   func_tracers, tools, events, program, frames, suspended,
                   exception, ncalls, last, history, completed, flags, peer>>

\* The return annotations match_unwind is applied to: the declared ones,
\* no annotation, and Self in a class.
ReturnAnnotations == DeclaredAnnotations \cup {AnnEmpty, AnnSelf}

\* The class the callable of the return annotation is a method of.
PureClass == "Foo"

\* overload.return_annotation.match_unwind(exception), on the schema that
\* Overload._get_return_annotation builds (FuncTracer.on_unwind)
PureMatchUnwind ==
    /\ pure.op = "match_unwind"
    /\ pure.result = Pending
    /\ pure' = [pure EXCEPT !.result =
                   match_unwind(_get_return_annotation(Signature(<<>>, pure.annotation),
                                                       PureClass, <<0>>),
                                pure.value)]
    /\ UNCHANGED <<_get_func_tracer, traced_funcs, _known_codes, _call_stack, tool_id,
                   func_tracers, tools, events, program, frames, suspended,
                   exception, ncalls, last, history, completed, flags, peer>>

\* The signature (x: int, y) with the annotation placed on the index-th
\* parameter, and the frame of a call that passes 5 and the value.
PureSignature(annotation, index) ==
    Signature([i \in 1..2 |-> Param(<<"x", "y">>[i],
                                    IF i = index THEN annotation ELSE AnnType("int"))],
              AnnEmpty)

PureLocals(value, index) ==
    [i \in 1..2 |-> [name |-> <<"x", "y">>[i],
                     value |-> IF i = index THEN value ELSE "v5"]]

\* overload.match(frame) (FuncTracer.on_start)
PureOverloadMatch ==
    /\ pure.op = "Overload.match"
    /\ pure.result = Pending
    /\ pure' = [pure EXCEPT !.result =
                   Overload_match(Overload_from_callable(
                                      PureSignature(pure.annotation, pure.index),
                                      "", <<0>>),
                                  PureLocals(pure.value, pure.index))]
    /\ UNCHANGED <<_get_func_tracer, traced_funcs, _known_codes, _call_stack, tool_id,
                   func_tracers, tools, events, program, frames, suspended,
                   exception, ncalls, last, history, completed, flags, peer>>

\* The values a schema is matched against before its coverage is analyzed.
ObservedValues == {"v5", "v1", "vTrue", "vBad", "vNone", "vPi", "vBar"}

\* match = annot.match(value), the match kept in a set when there is one
\* (set[TypeMatch], the argument of analyze_coverage)
PureObserve(value) ==
    /\ pure.op = "analyze_coverage"
    /\ Len(pure.values) < MaxValues
    /\ LET m == match(get_annotation(pure.annotation, <<0>>), value)
       IN  pure' = [pure EXCEPT !.values = Append(@, value),
                                !.matches = IF m = NoMatch THEN @ ELSE @ \cup {m},
                                !.result = Pending]
    /\ UNCHANGED <<_get_func_tracer, traced_funcs, _known_codes, _call_stack, tool_id,
                   func_tracers, tools, events, program, frames, suspended,
                   exception, ncalls, last, history, completed, flags, peer>>

\* annot.analyze_coverage(matches, is_return)
PureAnalyze(is_return) ==
    /\ pure.op = "analyze_coverage"
    /\ pure.result = Pending
    /\ pure' = [pure EXCEPT !.result =
                   analyze_coverage(get_annotation(pure.annotation, <<0>>),
                                    pure.matches, is_return)]
    /\ UNCHANGED <<_get_func_tracer, traced_funcs, _known_codes, _call_stack, tool_id,
                   func_tracers, tools, events, program, frames, suspended,
                   exception, ncalls, last, history, completed, flags, peer>>

\* match = schema.match(value): the first of two applications of one
\* schema object
PureMatchOnce ==
    /\ pure.op = "match_twice"
    /\ pure.result = Pending
    /\ pure' = [pure EXCEPT !.result = match(pure.schema, pure.value)]
    /\ UNCHANGED <<_get_func_tracer, traced_funcs, _known_codes, _call_stack, tool_id,
                   func_tracers, tools, events, program, frames, suspended,
                   exception, ncalls, last, history, completed, flags, peer>>

\* again = schema.match(other): the second application
PureMatchAgain ==
    /\ pure.op = "match_twice"
    /\ pure.result # Pending
    /\ pure.again = Pending
    /\ pure' = [pure EXCEPT !.again = match(pure.schema, pure.other)]
    /\ UNCHANGED <<_get_func_tracer, traced_funcs, _known_codes, _call_stack, tool_id,
                   func_tracers, tools, events, program, frames, suspended,
                   exception, ncalls, last, history, completed, flags, peer>>

\* The tallies composed: hits and total up to MaxTally each.
Tallies == {TypeCoverage(h, t) : h \in 0..MaxTally, t \in 0..MaxTally}

\* (a * b) and (a * b).ratio
PureMul ==
    /\ pure.op = "__mul__"
    /\ pure.result = Pending
    /\ pure' = [pure EXCEPT !.result = [cov |-> Mul(pure.a, pure.b),
                                        ratio |-> ratio(Mul(pure.a, pure.b))]]
    /\ UNCHANGED <<_get_func_tracer, traced_funcs, _known_codes, _call_stack, tool_id,
                   func_tracers, tools, events, program, frames, suspended,
                   exception, ncalls, last, history, completed, flags, peer>>

\* (a + b) and (a + b).ratio
PureAdd ==
    /\ pure.op = "__add__"
    /\ pure.result = Pending
    /\ pure' = [pure EXCEPT !.result = [cov |-> Add(pure.a, pure.b),
                                        ratio |-> ratio(Add(pure.a, pure.b))]]
    /\ UNCHANGED <<_get_func_tracer, traced_funcs, _known_codes, _call_stack, tool_id,
                   func_tracers, tools, events, program, frames, suspended,
                   exception, ncalls, last, history, completed, flags, peer>>

\* annot = SelfAnnotation(bound_class); annot.match(value)
\* (test_self_annotation_match)
PureSelfMatch ==
    /\ pure.op = "SelfAnnotation.match"
    /\ pure.result = Pending
    /\ pure' = [pure EXCEPT !.result = match(SelfAnnotation(pure.bound_class, <<0>>),
                                             pure.value)]
    /\ UNCHANGED <<_get_func_tracer, traced_funcs, _known_codes, _call_stack, tool_id,
                   func_tracers, tools, events, program, frames, suspended,
                   exception, ncalls, last, history, completed, flags, peer>>

InitPure ==
    /\ program = Program({}, {}, {}, {}, FactoryBound, {}, FALSE)
    /\ _get_func_tracer = program.factory
    /\ traced_funcs = EmptyDict
    /\ _known_codes = EmptyDict
    /\ _call_stack = <<>>
    /\ tool_id = 0
    /\ func_tracers = <<>>
    /\ tools = [i \in ToolIds |-> ""]
    /\ events = FALSE
    /\ frames = <<>>
    /\ suspended = {}
    /\ exception = NoException
    /\ ncalls = 0
    /\ last = Event("init", "", 0, "", "none", <<>>)
    /\ history = <<>>
    /\ completed = {}
    /\ flags = [failed |-> FALSE, yielded |-> FALSE, own |-> FALSE, first |-> 1]
    /\ pure \in {[op |-> "match", annotation |-> a, value |-> v, result |-> Pending] :
                    a \in DeclaredAnnotations, v \in Values}
               \cup {[op |-> "match_unwind", annotation |-> a, value |-> e,
                      result |-> Pending] :
                        a \in ReturnAnnotations, e \in Exceptions}
               \cup {[op |-> "Overload.match", annotation |-> a, value |-> v,
                      index |-> i, result |-> Pending] :
                        a \in DeclaredAnnotations, v \in Values, i \in 1..2}
               \cup {[op |-> "analyze_coverage", annotation |-> a, values |-> <<>>,
                      matches |-> {}, result |-> Pending] :
                        a \in DeclaredAnnotations}
               \cup {[op |-> "match_twice",
                      schema |-> _get_return_annotation(Signature(<<>>, a),
                                                        PureClass, <<0>>),
                      value |-> v, other |-> w, result |-> Pending,
                      again |-> Pending] :
                        a \in ReturnAnnotations, v \in Values, w \in Values}
               \cup {[op |-> o, a |-> a, b |-> b, result |-> Pending] :
                        o \in {"__mul__", "__add__"}, a \in Tallies, b \in Tallies}
               \cup {[op |-> "SelfAnnotation.match", bound_class |-> c, value |-> v,
                      result |-> Pending] :
                        c \in Classes, v \in Values}
    /\ peer = PeerIdle

NextPure ==
    \/ PureMatch
    \/ PureMatchUnwind
    \/ PureOverloadMatch
    \/ \E value \in ObservedValues : PureObserve(value)
    \/ \E is_return \in BOOLEAN : PureAnalyze(is_return)
    \/ PureMatchOnce
    \/ PureMatchAgain
    \/ PureMul
    \/ PureAdd
    \/ PureSelfMatch

SpecPure == InitPure /\ [][NextPure]_vars

\* ------------------------------------------------------------------------
\* Properties of the controller (sysmon.py)
\* ------------------------------------------------------------------------

\* The tracer callbacks of the current session.
InSession(cb) == cb.cid >= flags.first

IsExit(cb) == cb.op \in {"on_return", "on_unwind"}

\* The call cid has a frame, running or suspended.
InFlight(cid) ==
    \/ \E i \in 1..Len(frames) : frames[i].cid = cid
    \/ \E frame \in suspended : frame.cid = cid

\* The events arrived well-nested so far and no handler failed: no
\* generator frame was suspended, and no enter or exit event of a method
\* of a second controller arrived, of which the handlers take the one and
\* skip the other.
WellNested == ~flags.failed /\ ~flags.yielded /\ ~flags.own

\* The i-th callback is an exit callback given the key, by the tracer, of
\* an earlier on_start of the call that is exiting, and no other exit
\* callback was given that call's key.
PairedExit(i) ==
    /\ history[i].by = history[i].cid
    /\ \E j \in 1..(i - 1) :
          /\ history[j].op = "on_start"
          /\ history[j].raised = "none"
          /\ history[j].cid = history[i].cid
          /\ history[j].tracer = history[i].tracer
          /\ history[j].key = history[i].key
    /\ \A k \in 1..Len(history) :
          (k # i /\ IsExit(history[k])) => history[k].cid # history[i].cid

ExitEvent(e) ==
    /\ e.event \in {"return", "unwind"}
    /\ ~(e.event = "unwind" /\ e.value = MonitoringCallbackError)
    /\ ~(e.event = "return" /\ e.code = "Tracer_enter")
    /\ should_trace(Code[e.code].co_filename).raised = "none"
    /\ should_trace(Code[e.code].co_filename).value

\* The handler failed before any tracer was called or any record changed.
FailedUntouched ==
    /\ last'.raised # "none"
    /\ last'.callbacks = <<>>
    /\ func_tracers' = func_tracers

\* C2 (as amended): an exit event of an included code unit pops the top
\* entry of a non-empty call stack, and when the popped entry's code unit
\* differs from the event's the handler fails without calling on_return or
\* on_unwind and without changing any call record; on an empty stack the
\* handler fails likewise and pops nothing.
C2_PopAndAssertIdentity ==
    [][ExitEvent(last') =>
           IF _call_stack = <<>>
           THEN FailedUntouched /\ _call_stack' = <<>>
           ELSE /\ _call_stack' = SubSeq(_call_stack, 1, Len(_call_stack) - 1)
                /\ (_call_stack[Len(_call_stack)].code # last'.code) => FailedUntouched
       ]_vars

\* An exit event found another code unit's entry on top and failed.
C2_Witness ==
    /\ ExitEvent(last)
    /\ last.stack # <<>>
    /\ last.stack[Len(last.stack)].code # last.code
    /\ last.raised # "none"
    /\ last.callbacks = <<>>
    /\ Len(_call_stack) = Len(last.stack) - 1

\* C2 as stated: in addition, an exit that arrives in another order than
\* the reverse order of entry (the top entry is not the exiting call's) is
\* always detected as a failure.
C2_OutOfOrderAlwaysDetected ==
    [][(ExitEvent(last') /\ _call_stack # <<>> /\ ~flags.failed) =>
           /\ _call_stack' = SubSeq(_call_stack, 1, Len(_call_stack) - 1)
           /\ (_call_stack[Len(_call_stack)].code # last'.code) => FailedUntouched
           /\ (_call_stack[Len(_call_stack)].cid # last'.by) => last'.raised # "none"
       ]_vars

\* C3: deactivate raises an assertion failure exactly when the call stack
\* is non-empty and the scope is not left with the internal-failure
\* marker; after well-nested events without failure the stack is empty
\* and nothing is raised.
C3_DeactivateAssertion ==
    last.event = "__exit__" =>
        /\ last.raised \in {"none", "AssertionError"}
        /\ last.raised = "AssertionError" <=>
               (_call_stack # <<>> /\ last.value # MonitoringCallbackError)
        /\ WellNested => (_call_stack = <<>> /\ last.raised = "none")

\* The scope was left with the marker and a non-empty stack: no assertion.
C3_Witness ==
    /\ last.event = "__exit__"
    /\ last.value = MonitoringCallbackError
    /\ _call_stack # <<>>
    /\ last.raised = "none"

\* The scope was left with entries on the stack: the assertion failed.
C3_WitnessAssertion ==
    /\ last.event = "__exit__"
    /\ last.raised = "AssertionError"

\* C4: a failure raised inside the handling of an enter, a normal-exit
\* or an exceptional-exit event reaches the monitored program only as the
\* internal-failure marker.
C4_FailuresOnlyAsMarker ==
    last.event \in {"start", "return", "unwind"} =>
        last.raised \in {"none", MonitoringCallbackError}

\* ------------------------------------------------------------------------
\* Properties of the call tracer (func_tracer.py)
\* ------------------------------------------------------------------------

\* The value bound to the overload's p-th parameter in the frame.
BoundValue(overload, f_locals, p) ==
    f_locals_get(f_locals, overload.signature.parameters[p].name)

\* Every parameter schema of the overload matches its bound value.
ParamsMatch(overload, f_locals) ==
    \A p \in 1..Len(overload.param_annotations) :
        match(overload.param_annotations[p], BoundValue(overload, f_locals, p)) # NoMatch

\* The key names the k-th declared overload, which matches the frame as
\* no earlier one does, with the witness of each parameter.
FirstMatching(ft, key, f_locals, k) ==
    /\ ft.matched_calls[k].overload.oid = key.overload
    /\ ParamsMatch(ft.matched_calls[k].overload, f_locals)
    /\ \A j \in 1..(k - 1) : ~ParamsMatch(ft.matched_calls[j].overload, f_locals)
    /\ key.matches =
           [p \in 1..Len(ft.matched_calls[k].overload.param_annotations) |->
               match(ft.matched_calls[k].overload.param_annotations[p],
                     BoundValue(ft.matched_calls[k].overload, f_locals, p))]

\* The key on_start returned for the frame is the one the resolution in
\* declaration order gives.
Resolved(ft, key, f_locals) ==
    IF key.kind = "matched"
    THEN \E k \in 1..Len(ft.matched_calls) : FirstMatching(ft, key, f_locals, k)
    ELSE /\ key.kind = "unmatched"
         /\ \A k \in 1..Len(ft.matched_calls) :
               ~ParamsMatch(ft.matched_calls[k].overload, f_locals)

\* C5: on_start returns the first overload, in declaration order, all of
\* whose parameter schemas match the bound argument values, with its
\* per-parameter witnesses; a later overload is never chosen when an
\* earlier one fully matches, and the unmatched key is returned only when
\* none matches.
C5_FirstMatchingOverload ==
    \A i \in 1..Len(history) :
        (history[i].op = "on_start" /\ history[i].raised = "none") =>
            Resolved(func_tracers[history[i].tracer], history[i].key, history[i].arg)

\* A call that both declared overloads match was resolved to the first,
\* and another call, which only the second matches, to the second.
C5_Witness ==
    \E i, j \in 1..Len(history) :
        /\ history[i].op = "on_start"
        /\ history[i].key.kind = "matched"
        /\ history[i].key.overload = <<history[i].tracer, 1>>
        /\ Len(func_tracers[history[i].tracer].matched_calls) = 2
        /\ ParamsMatch(func_tracers[history[i].tracer].matched_calls[2].overload,
                       history[i].arg)
        /\ history[j].op = "on_start"
        /\ history[j].key.kind = "matched"
        /\ history[j].key.overload = <<history[j].tracer, 2>>

\* The elements of a sequence.
Range(seq) == {seq[i] : i \in 1..Len(seq)}

\* The on_start callback of the call cid.
StartOf(cid) ==
    history[CHOOSE j \in 1..Len(history) :
                history[j].op = "on_start" /\ history[j].cid = cid]

\* "name=repr" for the i-th local.
RenderedLocal(f_locals, i) ==
    f_locals[i].name \o "=" \o ValueRepr[f_locals[i].value].text

\* The arguments as on_start renders them (at most two occur).
RenderedArguments(f_locals) ==
    IF Len(f_locals) = 0 THEN ""
    ELSE IF Len(f_locals) = 1 THEN RenderedLocal(f_locals, 1)
    ELSE RenderedLocal(f_locals, 1) \o ", " \o RenderedLocal(f_locals, 2)

\* The rendering of the value or exception an exit event carries.
Rendered(e) == IF e.event = "return" THEN ValueRepr[e.value] ELSE ExceptionRepr(e.value)

\* The handler of the exit event noted in e passed an unmatched key to
\* the tracer.
UnmatchedExit(e) ==
    /\ e.event \in {"return", "unwind"}
    /\ e.callbacks # <<>>
    /\ e.callbacks[1].key.kind = "unmatched"

\* The tuple the unmatched bucket is to hold after the exit event e.
UnmatchedTuple(e) ==
    <<RenderedArguments(StartOf(e.callbacks[1].cid).arg), e.event, Rendered(e).text>>

\* The witnesses recorded for the p-th parameter in an overload's calls.
ParamMatches(calls, p) == {calls[i][1][p] : i \in 1..Len(calls)}

\* The number of branches of a parameter schema.
Branches(ann) ==
    IF ann.kind = "UnionAnnotation" THEN Len(ann.options)
    ELSE IF ann.kind = "NeverAnnotation" THEN 0
    ELSE 1

\* No matched Call Record of the tracer changes in the step.
MatchedUnchanged(tracer) ==
    \A k \in 1..Len(func_tracers[tracer].matched_calls) :
        func_tracers'[tracer].matched_calls[k] = func_tracers[tracer].matched_calls[k]

\* The parameters (overload k, parameter p) of the tracer's overloads
\* that have no matched call.
EmptyParams(ft) ==
    {kp \in (1..Len(ft.matched_calls)) \X (1..2) :
        /\ ft.matched_calls[kp[1]].calls = <<>>
        /\ kp[2] <= Len(ft.matched_calls[kp[1]].overload.param_annotations)}

ParamSchema(ft, kp) == ft.matched_calls[kp[1]].overload.param_annotations[kp[2]]

\* The tally of the parameter over the overload's matched calls.
ParamTally(ft, kp) ==
    analyze_coverage(ParamSchema(ft, kp),
                     ParamMatches(ft.matched_calls[kp[1]].calls, kp[2]), FALSE)

\* What the handler of an exit event does with an unmatched key, save
\* for the tally: the key is the exiting call's under well-nested events,
\* no matched Call Record changes, and the bucket afterwards holds the
\* tuple unless the rendering fails, which fails the handler.
UnmatchedKept ==
    /\ MatchedUnchanged(last'.callbacks[1].tracer)
    /\ WellNested => last'.callbacks[1].cid = last'.by
    /\ IF Rendered(last').raised = "none"
       THEN UnmatchedTuple(last') \in
                Range(func_tracers'[last'.callbacks[1].tracer].unmatched_calls)
       ELSE /\ last'.raised # "none"
            /\ func_tracers' = func_tracers

ReturnMismatch(e) ==
    /\ e.event = "return"
    /\ e.callbacks # <<>>
    /\ e.callbacks[1].key.kind = "matched"
    /\ match(return_annotation_of(func_tracers[e.callbacks[1].tracer],
                                  e.callbacks[1].key.overload), e.value) = NoMatch

\* The matched Call Record of the overload the callback's key names.
RecordOf(fts, cb) ==
    fts[cb.tracer].matched_calls[overload_index(fts[cb.tracer], cb.key.overload)].calls

\* C7 (as amended): a call whose arguments match an overload but whose
\* returned value does not satisfy that overload's return schema is
\* recorded in that overload's matched Call Record, as a tuple of the
\* parameter witnesses with no return witness and no exception text; the
\* unmatched bucket and the other overloads' records do not change.
C7_ReturnMismatchInMatchedRecord ==
    [][ReturnMismatch(last') =>
           /\ <<last'.callbacks[1].key.matches, NoMatch, NoRepr>>
                  \in Range(RecordOf(func_tracers', last'.callbacks[1]))
           /\ func_tracers'[last'.callbacks[1].tracer].unmatched_calls =
                  func_tracers[last'.callbacks[1].tracer].unmatched_calls
           /\ \A k \in 1..Len(func_tracers[last'.callbacks[1].tracer].matched_calls) :
                  k # overload_index(func_tracers[last'.callbacks[1].tracer],
                                     last'.callbacks[1].key.overload)
                  => func_tracers'[last'.callbacks[1].tracer].matched_calls[k] =
                         func_tracers[last'.callbacks[1].tracer].matched_calls[k]
       ]_vars

\* f: (x: int) -> str was called with an int and returned None: its
\* matched Call Record holds the tuple without return witness.
C7_Witness ==
    /\ last.event = "return"
    /\ last.code = "f"
    /\ last.value = "vNone"
    /\ last.raised = "none"
    /\ last.callbacks # <<>>
    /\ last.callbacks[1].key.kind = "matched"
    /\ <<last.callbacks[1].key.matches, NoMatch, NoRepr>>
           \in Range(RecordOf(func_tracers, last.callbacks[1]))

\* C7 as stated: such a call is recorded in the unmatched bucket and adds
\* no tuple to the overload's matched Call Record.
C7_ReturnMismatchInUnmatchedBucket ==
    [][ReturnMismatch(last') =>
           /\ RecordOf(func_tracers', last'.callbacks[1]) =
                  RecordOf(func_tracers, last'.callbacks[1])
           /\ \E t \in Range(func_tracers'[last'.callbacks[1].tracer].unmatched_calls) :
                  /\ t[2] = "return"
                  /\ t[3] = ValueRepr[last'.value].text
       ]_vars

\* ------------------------------------------------------------------------
\* Properties of the matching engine (type_annotation.py)
\* ------------------------------------------------------------------------

\* The members of the union that match the value.
MatchingMembers(ann, value) ==
    {i \in 1..Len(ann.options) : match(ann.options[i], value) # NoMatch}

\* The result is the witness of the i-th member, and renders as it.
WitnessOfMember(result, ann, value, i) ==
    /\ result.kind = "UnionAnnotation.Match"
    /\ result.option = ann.options[i].oid
    /\ result.match = match(ann.options[i], value)
    /\ Str(result) = Str(match(ann.options[i], value))

\* The result of matching the union against the value is no-match when no
\* member matches, and otherwise the witness of the earliest member that
\* matches.
FirstMatchWins(result, ann, value) ==
    IF MatchingMembers(ann, value) = {} THEN result = NoMatch
    ELSE \E i \in MatchingMembers(ann, value) :
            /\ \A j \in MatchingMembers(ann, value) : i <= j
            /\ WitnessOfMember(result, ann, value, i)

\* The matches the tests name: int | str with 5 renders "int",
\* Optional[int] with None renders "None".
TestedMatches ==
    /\ (pure.annotation = AnnUnion(<<AnnType("int"), AnnType("str")>>)
        /\ pure.value = "v5") => Str(pure.result) = "int"
    /\ (pure.annotation = AnnUnion(<<AnnType("int"), AnnNone>>)
        /\ pure.value = "vNone") => Str(pure.result) = "None"

\* C8: UnionAnnotation.match(v) returns no-match if and only if no member
\* matches v, and otherwise the witness of the earliest-declared member
\* that matches v, even when later members match too; the witness renders
\* as that member's witness.
C8_UnionFirstMatchWins ==
    (pure.op = "match" /\ pure.result # Pending
     /\ get_annotation(pure.annotation, <<0>>).kind = "UnionAnnotation") =>
        /\ FirstMatchWins(pure.result, get_annotation(pure.annotation, <<0>>), pure.value)
        /\ TestedMatches

\* A union was matched against a value that several members match, and
\* the witness is the first one's.
C8_Witness ==
    /\ pure.op = "match"
    /\ pure.annotation = AnnUnion(<<AnnType("bool"), AnnType("int"), AnnType("object")>>)
    /\ pure.value = "v5"
    /\ pure.result # Pending
    /\ pure.result.kind = "UnionAnnotation.Match"
    /\ pure.result.match = [kind |-> "InstanceAnnotation.Match", typ |-> "int"]

\* ------------------------------------------------------------------------
\* End-to-end properties
\* ------------------------------------------------------------------------

\* The function was called with the argument and returned.
Completed(code, value) ==
    \E retval \in program.rets : <<code, Locals(code, <<value>>), retval>> \in completed

\* Every call that returned was a call of the function with one of the
\* two arguments.
OnlyCompleted(code, v, w) ==
    \A c \in completed :
        c[1] = code /\ c[2] \in {Locals(code, <<v>>), Locals(code, <<w>>)}

\* The tracer registered under the name, with a single overload holding
\* two matched records, whose parameter tally is (2, 2).
BothMatched(fullname) ==
    /\ fullname \in DOMAIN traced_funcs
    /\ Len(func_tracers[traced_funcs[fullname]].matched_calls) = 1
    /\ Len(func_tracers[traced_funcs[fullname]].matched_calls[1].calls) = 2
    /\ func_tracers[traced_funcs[fullname]].unmatched_calls = <<>>
    /\ ParamTally(func_tracers[traced_funcs[fullname]], <<1, 1>>) = TypeCoverage(2, 2)

\* C9: with the controller wired as the entry point wires it, a function
\* annotated (x: int | None) -> bool called with x=5 and with x=None,
\* and not otherwise, during a session ends the session with a tracer
\* registered under its name whose single overload holds both calls as
\* matched records, the tally of the parameter union being (2, 2).
C9_EndToEndUnionTally ==
    (/\ _get_func_tracer = FactoryCli
     /\ last.event = "__exit__"
     /\ WellNested
     /\ Completed("h", "v5")
     /\ Completed("h", "vNone")
     /\ OnlyCompleted("h", "v5", "vNone")) => BothMatched(Fullname("app", "h"))

\* The return schema of the overload is Never.
ReturnsNever(overload) == overload.return_annotation.kind = "NeverAnnotation"

\* The return witnesses recorded in an overload's calls.
ReturnMatches(calls) == {calls[i][2] : i \in 1..Len(calls)} \ {NoMatch}

\* The recorded calls that unwound.
Unwound(calls) == {i \in 1..Len(calls) : calls[i][3] # NoRepr}

\* Every recorded unwound call of the overload carries the Never witness,
\* and the return tally is (1, total) when there is one, (0, total) when
\* there is none.
NeverTally(record, total) ==
    /\ \A i \in Unwound(record.calls) :
           record.calls[i][2] = [kind |-> "NeverAnnotation.Match"]
    /\ analyze_coverage(record.overload.return_annotation,
                        ReturnMatches(record.calls), TRUE)
           = TypeCoverage(IF Unwound(record.calls) # {} THEN 1 ELSE 0, total)

\* The tally of every overload that returns Never.
NeverTallies(total) ==
    \A t \in 1..Len(func_tracers) :
        \A k \in 1..Len(func_tracers[t].matched_calls) :
            ReturnsNever(func_tracers[t].matched_calls[k].overload)
                => NeverTally(func_tracers[t].matched_calls[k], total)

\* The handler of the exceptional-exit event noted in e passed to the
\* tracer the key of a call that matched an overload returning Never,
\* and the tracer did not fail.
NeverUnwind(e) ==
    /\ e.event = "unwind"
    /\ e.callbacks # <<>>
    /\ e.callbacks[1].raised = "none"
    /\ e.callbacks[1].key.kind = "matched"
    /\ ReturnsNever(func_tracers[e.callbacks[1].tracer]
                        .matched_calls[overload_index(func_tracers[e.callbacks[1].tracer],
                                                      e.callbacks[1].key.overload)].overload)

\* The unwound call is in the overload's matched Call Record, with the
\* Never witness and the exception's rendering.
UnwoundRecorded ==
    UnwindTuple(last'.callbacks[1].key.matches, [kind |-> "NeverAnnotation.Match"],
                ExceptionRepr(last'.value).text)
        \in Range(RecordOf(func_tracers', last'.callbacks[1]))

\* C10 (as amended): every call that unwinds from a function whose return
\* schema is Never is recorded as a matched unwound outcome carrying the
\* Never witness, and the return tally computed from the recorded
\* witnesses is (1, 1); with no unwind observed it is (0, 1).
C10_NeverReturnTally ==
    [][/\ NeverUnwind(last') => UnwoundRecorded
       /\ NeverTallies(1)'
      ]_vars

\* A function returning Never raised: the tally is (1, 1).
C10_Witness ==
    /\ NeverUnwind(last)
    /\ last.code = "n"
    /\ last.raised = "none"
    /\ analyze_coverage(func_tracers[last.callbacks[1].tracer].matched_calls[1]
                            .overload.return_annotation,
                        ReturnMatches(func_tracers[last.callbacks[1].tracer]
                                          .matched_calls[1].calls), TRUE)
           = TypeCoverage(1, 1)

\* C10 as stated: the tally is (1, 0), and (0, 0) with no unwind observed.
C10_NeverReturnTallyOfZero ==
    [][/\ NeverUnwind(last') => UnwoundRecorded
       /\ NeverTallies(0)'
      ]_vars

\* ------------------------------------------------------------------------
\* C11: the call records are grow-only sets without duplicates
\* ------------------------------------------------------------------------

\* The buckets of the tracers in fts: <<t, 0>> is the unmatched bucket of
\* the t-th tracer, <<t, k>> the record of its k-th overload.
Buckets(fts) ==
    UNION {{<<t, k>> : k \in 0..Len(fts[t].matched_calls)} : t \in 1..Len(fts)}

Bucket(fts, b) ==
    IF b[2] = 0 THEN fts[b[1]].unmatched_calls
    ELSE fts[b[1]].matched_calls[b[2]].calls

\* The overloads the t-th tracer is keyed by.
OverloadsOf(fts, t) ==
    [k \in 1..Len(fts[t].matched_calls) |-> fts[t].matched_calls[k].overload]

\* The buckets this step changed.
Grown == {b \in Buckets(func_tracers) : Bucket(func_tracers', b) # Bucket(func_tracers, b)}

\* The exit callback cb given once more to the tracer ft.
Again(ft, cb) ==
    IF cb.op = "on_return" THEN on_return(ft, cb.key, cb.arg).ft
    ELSE on_unwind(ft, cb.key, cb.arg).ft

\* The exit callbacks of the step's event that returned.
Recorded == {i \in 1..Len(last'.callbacks) :
                IsExit(last'.callbacks[i]) /\ last'.callbacks[i].raised = "none"}

\* C11: over every step, activations and deactivations included, no tracer
\* and no tuple is removed, the overloads a tracer is keyed by do not
\* change, no bucket holds a tuple twice, at most one bucket changes and it
\* gains one tuple, a bucket changes only in an on_return or on_unwind that
\* the step's exit event invoked on its tracer, a tracer starts with empty
\* buckets, and the exit callback given again adds nothing (the tuple of an
\* exit that is already present leaves every record as it is).
C11_RecordsGrowOnlySets ==
    [][ /\ Len(func_tracers') >= Len(func_tracers)
        /\ \A t \in 1..Len(func_tracers) :
              OverloadsOf(func_tracers', t) = OverloadsOf(func_tracers, t)
        /\ \A b \in Buckets(func_tracers) :
              Range(Bucket(func_tracers, b)) \subseteq Range(Bucket(func_tracers', b))
        /\ \A b \in Buckets(func_tracers') :
              /\ Cardinality(Range(Bucket(func_tracers', b))) = Len(Bucket(func_tracers', b))
              /\ b[1] > Len(func_tracers) => Bucket(func_tracers', b) = <<>>
        /\ Cardinality(Grown) <= 1
        /\ \A b \in Grown :
              /\ Len(Bucket(func_tracers', b)) = Len(Bucket(func_tracers, b)) + 1
              /\ last'.event \in {"return", "unwind"}
              /\ \E i \in Recorded : last'.callbacks[i].tracer = b[1]
        /\ \A i \in Recorded :
              Again(func_tracers'[last'.callbacks[i].tracer], last'.callbacks[i])
                  = func_tracers'[last'.callbacks[i].tracer]
      ]_vars

\* A call of a second session has just been recorded by the exit callback
\* that recorded a call of an earlier session, and the tracer holds one
\* tuple.
C11_Witness ==
    /\ Len(history) > 1
    /\ IsExit(history[Len(history)])
    /\ history[Len(history)].raised = "none"
    /\ history[Len(history)].cid >= flags.first
    /\ \E i \in 1..(Len(history) - 1) :
          /\ history[i].cid < flags.first
          /\ history[i].op = history[Len(history)].op
          /\ history[i].tracer = history[Len(history)].tracer
          /\ history[i].key = history[Len(history)].key
          /\ history[i].arg = history[Len(history)].arg
          /\ history[i].raised = "none"
    /\ Cardinality(UNION {Range(Bucket(func_tracers, b)) :
                             b \in {c \in Buckets(func_tracers) :
                                       c[1] = history[Len(history)].tracer}}) = 1

\* ------------------------------------------------------------------------
\* C12: a code unit is resolved once and code units of one name share a
\* tracer
\* ------------------------------------------------------------------------

\* The fully-qualified name the code unit resolves to.
NameOf(code) == Fullname(Code[code].module, Code[code].co_qualname)

\* The step's event is an enter event the filter accepted and the handler
\* did not skip.
IncludedStart(e) ==
    /\ e.event = "start"
    /\ e.code # "Tracer_exit"
    /\ should_trace(Code[e.code].co_filename).raised = "none"
    /\ should_trace(Code[e.code].co_filename).value

\* Every non-empty cache entry is the tracer the map holds for the code
\* unit's name, and the map holds each tracer made under one name only.
CacheWithinMap ==
    /\ \A code \in DOMAIN _known_codes :
          _known_codes[code] # NoTracer =>
              /\ Code[code].module # ""
              /\ NameOf(code) \in DOMAIN traced_funcs
              /\ traced_funcs[NameOf(code)] = _known_codes[code]
    /\ \A m, n \in DOMAIN traced_funcs :
          /\ traced_funcs[m] \in 1..Len(func_tracers)
          /\ traced_funcs[m] = traced_funcs[n] => m = n
    /\ Len(func_tracers) = Cardinality(DOMAIN traced_funcs)

\* C12: a cache or map entry, once made, stays; the cache, the map and the
\* tracers change only at an included enter event of a code unit not yet
\* in the cache, which enters the cache then (with a tracer or with none)
\* and makes at most one tracer; an enter event of a code unit without
\* tracer pushes an entry without tracer and key and calls no tracer; a
\* code unit whose name the map already holds gets the tracer of the map;
\* every non-empty cache entry is the map's tracer of the name, one per
\* name.
C12_ResolvedOnceAndShared ==
    [][ /\ \A code \in DOMAIN _known_codes :
              code \in DOMAIN _known_codes' /\ _known_codes'[code] = _known_codes[code]
        /\ \A n \in DOMAIN traced_funcs :
              n \in DOMAIN traced_funcs' /\ traced_funcs'[n] = traced_funcs[n]
        /\ (\/ _known_codes' # _known_codes
             \/ traced_funcs' # traced_funcs
             \/ Len(func_tracers') # Len(func_tracers))
           => /\ IncludedStart(last')
              /\ last'.code \notin DOMAIN _known_codes
              /\ DOMAIN _known_codes' = DOMAIN _known_codes \cup {last'.code}
              /\ DOMAIN traced_funcs' \subseteq DOMAIN traced_funcs \cup {NameOf(last'.code)}
              /\ Len(func_tracers') <= Len(func_tracers) + 1
        /\ IncludedStart(last')
           => /\ last'.code \in DOMAIN _known_codes'
              /\ NameOf(last'.code) \in DOMAIN traced_funcs /\ Code[last'.code].module # ""
                 => _known_codes'[last'.code] = traced_funcs[NameOf(last'.code)]
              /\ _known_codes'[last'.code] = NoTracer
                 => /\ last'.raised = "none"
                    /\ last'.callbacks = <<>>
                    /\ _call_stack' = Append(_call_stack,
                                             StackEntry(last'.code, NoTracer, NoneKey,
                                                        last'.by))
        /\ CacheWithinMap'
      ]_vars

\* Two code units of one name are in the cache with the one tracer made,
\* next to a code unit cached without tracer.
C12_Witness ==
    /\ {"f", "f_again", "nomod"} \subseteq DOMAIN _known_codes
    /\ _known_codes["f"] # NoTracer
    /\ _known_codes["f_again"] = _known_codes["f"]
    /\ _known_codes["nomod"] = NoTracer
    /\ Len(func_tracers) = 1

\* ------------------------------------------------------------------------
\* C13: events of excluded code units change nothing
\* ------------------------------------------------------------------------

\* The step's event is an enter or exit event of a code unit the filter
\* rejects.
Rejected(e) ==
    /\ e.event \in {"start", "return", "unwind"}
    /\ should_trace(Code[e.code].co_filename).raised = "none"
    /\ ~should_trace(Code[e.code].co_filename).value

\* C13: an enter, normal-exit or exceptional-exit event of a code unit the
\* inclusion filter rejects leaves the call stack, the resolution cache,
\* the tracer map and every call record as they were, raises nothing and
\* invokes no tracer; and with excluded calls between the included ones
\* (no handler failed, no generator suspended) the exit event of an
\* included call still finds the entry of its own enter event on top.
C13_ExcludedEventsChangeNothing ==
    [][ /\ Rejected(last')
           => /\ UNCHANGED <<_call_stack, _known_codes, traced_funcs, func_tracers,
                             history>>
              /\ last'.raised = "none"
              /\ last'.callbacks = <<>>
        /\ ExitEvent(last') /\ WellNested
           => /\ _call_stack # <<>>
              /\ _call_stack[Len(_call_stack)].cid = last'.by
              /\ _call_stack' = SubSeq(_call_stack, 1, Len(_call_stack) - 1)
      ]_vars

\* An included call made from an excluded call made from an included call
\* has just returned: the call stack held the two included calls while
\* three frames were running.
C13_Witness ==
    /\ WellNested
    /\ last.event = "return" /\ last.raised = "none"
    /\ ~Rejected(last)
    /\ Len(frames) = 2
    /\ frames[2].code = "lib"
    /\ Len(last.stack) = 2
    /\ Len(_call_stack) = 1
    /\ _call_stack[1].cid = frames[1].cid

\* ------------------------------------------------------------------------
\* C14: the controller's own __enter__ and __exit__ are not traced
\* ------------------------------------------------------------------------

\* The code units of the methods that activate and deactivate.
OwnMethods == {"Tracer_enter", "Tracer_exit"}

\* No entry of the call stack, of the resolution cache or of the tracer
\* map belongs to __enter__ or __exit__.
NoOwnEntries ==
    /\ \A i \in 1..Len(_call_stack) : _call_stack[i].code \notin OwnMethods
    /\ DOMAIN _known_codes \cap OwnMethods = {}
    /\ \A code \in OwnMethods : NameOf(code) \notin DOMAIN traced_funcs

\* C14: in every reachable state no call-stack, cache or map entry belongs
\* to the controller's own __enter__ or __exit__, and no enter or exit
\* event of these methods, delivered while a session is active, changes
\* the call stack.
C14_OwnMethodsNeverTraced ==
    [][ /\ NoOwnEntries'
        /\ last'.event \in {"start", "return", "unwind"} /\ last'.code \in OwnMethods
           => _call_stack' = _call_stack
      ]_vars

\* ------------------------------------------------------------------------
\* C15: an exceptional exit with the marker is skipped
\* ------------------------------------------------------------------------

\* C15: an exceptional-exit event whose exception is the marker, of any
\* code unit (included, excluded, or one on which the filter fails), pops
\* nothing, invokes no tracer callback, raises nothing and leaves the call
\* stack, the cache, the map and the records as they were.
C15_MarkerUnwindSkipped ==
    [][ last'.event = "unwind" /\ last'.value = MonitoringCallbackError
        => /\ UNCHANGED <<_call_stack, _known_codes, traced_funcs, func_tracers,
                          history>>
           /\ last'.raised = "none"
           /\ last'.callbacks = <<>>
      ]_vars

\* The marker has just left the frame of an included call whose entry is
\* on top of the call stack, and the entry is still there.
C15_Witness ==
    /\ last.event = "unwind"
    /\ last.value = MonitoringCallbackError
    /\ _call_stack # <<>>
    /\ _call_stack[Len(_call_stack)].cid = last.by
    /\ _call_stack[Len(_call_stack)].code = last.code
    /\ _call_stack[Len(_call_stack)].tracer # NoTracer

\* ------------------------------------------------------------------------
\* C16: activation claims the first free slot, or fails and claims none
\* ------------------------------------------------------------------------

\* The slot the preference order gives in the pool: the coverage slot,
\* then 3, then 4; 0 when the three are held.
Preferred(pool) ==
    IF pool[COVERAGE_ID] = "" THEN COVERAGE_ID
    ELSE IF pool[3] = "" THEN 3
    ELSE IF pool[4] = "" THEN 4
    ELSE 0

\* The pool with the slot claimed by a controller.
Claimed(pool, slot) == [pool EXCEPT ![slot] = "apicov"]

\* C16: an activation (of the controller, or of a second one inside its
\* session) claims the preferred free slot, and only that slot changes;
\* with the three slots held it fails with RuntimeError, the pool and the
\* enabled events are as before, and no slot is recorded as claimed.  The
\* pool changes in no other step but a deactivation.
C16_FirstFreeSlotOrFailure ==
    [][ /\ last'.event = "__enter__" /\ Preferred(tools) # 0
           => /\ last'.raised = "none"
              /\ tool_id' = Preferred(tools)
              /\ tools' = Claimed(tools, Preferred(tools))
              /\ events'
        /\ last'.event = "__enter__" /\ Preferred(tools) = 0
           => /\ last'.raised = "RuntimeError"
              /\ UNCHANGED <<tools, events, tool_id>>
              /\ ~events'
        /\ last'.event = "return" /\ last'.code = "get_tool_id" /\ last'.raised = "none"
           => /\ Preferred(tools) # 0
              /\ peer'.tool_id = Preferred(tools)
              /\ tools' = tools
        /\ peer'.pc = "active" /\ peer.pc # "active"
           => /\ peer.tool_id = Preferred(tools)
              /\ tools' = Claimed(tools, Preferred(tools))
        /\ last'.event = "raise" /\ last'.code = "get_tool_id"
           => /\ Preferred(tools) = 0
              /\ last'.value = "RuntimeError"
              /\ UNCHANGED <<tools, events, tool_id, peer>>
        /\ last'.event = "unwind" /\ last'.code = "Tracer_enter"
           => tools' = tools /\ peer'.pc = "idle"
        /\ tools' # tools
           => \/ last'.event = "__enter__"
              \/ last'.event = "__exit__"
              \/ last'.event = "return" /\ last'.code \in OwnMethods
      ]_vars

\* The controller holds the coverage slot, the other two slots are held,
\* and the activation of a second controller has just failed with
\* RuntimeError.
C16_Witness ==
    /\ events
    /\ tool_id = COVERAGE_ID
    /\ tools[COVERAGE_ID] = "apicov"
    /\ tools[3] # "" /\ tools[4] # ""
    /\ last.event = "unwind"
    /\ last.code = "Tracer_enter"
    /\ last.value = "RuntimeError"
    /\ peer.pc = "idle"

\* ------------------------------------------------------------------------
\* C17: how many sessions are active at a time
\* ------------------------------------------------------------------------

\* The second controller's session is active: it holds its slot and its
\* events are enabled, from the end of its __enter__ into its __exit__.
PeerActive == peer.pc \in {"active", "exit"}

\* The slots of the pool that controllers hold.
SessionSlots == {i \in Range(tool_ids) : tools[i] = "apicov"}

\* C17 (as stated): at most one session is active at any time; activating
\* a second controller while a session is active never gives two sessions
\* that receive events at once.
C17_AtMostOneSession == ~(events /\ PeerActive)

\* C17 (as amended): the pool bounds the sessions by its three slots, not
\* by one.  Every active session holds a slot of the pool of its own, the
\* slots held by controllers are exactly those of the active sessions, and
\* the activation of a second controller during a session fails only when
\* no slot of the pool is free: with a free slot it succeeds and the two
\* sessions receive events at once.
C17_SessionsBoundedByPool ==
    [][ /\ events' => tool_id' \in SessionSlots'
        /\ PeerActive' => peer'.tool_id \in SessionSlots'
        /\ events' /\ PeerActive' => tool_id' # peer'.tool_id
        /\ SessionSlots' = (IF events' THEN {tool_id'} ELSE {})
                               \cup (IF PeerActive' THEN {peer'.tool_id} ELSE {})
        /\ last'.event = "raise" /\ last'.code = "get_tool_id"
           => \A i \in Range(tool_ids) : tools[i] # ""
        /\ last'.event = "return" /\ last'.code = "get_tool_id" /\ last'.raised = "none"
           => \E i \in Range(tool_ids) : tools[i] = ""
        /\ peer.pc = "found" /\ peer'.pc # "found" /\ exception' = NoException
           => events' /\ PeerActive'
      ]_vars

\* Two sessions are active at once, the first on the coverage slot and the
\* second on slot 4, and an enter event of the program has been delivered.
C17_Witness ==
    /\ events
    /\ PeerActive
    /\ tool_id = COVERAGE_ID
    /\ peer.tool_id = 4
    /\ last.event = "start"
    /\ last.code = "f"

\* ------------------------------------------------------------------------
\* C18: the end of the scoped region releases the slot
\* ------------------------------------------------------------------------

\* C18: when the scoped region of a session ends, whatever it ends with
\* (nothing, an exception of the program, the marker) and whether or not
\* the assertion on the call stack fails, the events are disabled and the
\* slot the session's activation claimed is free, the other slots being
\* as before; so whenever no session is active, after any number of
\* activations and deactivations, no slot is held by a controller.
C18_RegionEndReleasesSlot ==
    [][ /\ last'.event = "__exit__"
           => /\ events /\ tools[tool_id] = "apicov"
              /\ ~events'
              /\ tools'[tool_id] = ""
              /\ \A i \in ToolIds \ {tool_id} : tools'[i] = tools[i]
        /\ ~events' => \A i \in ToolIds : tools'[i] # "apicov"
      ]_vars

\* The region of a second session has just ended with the assertion on
\* the call stack failing, and the slot is free.
C18_Witness ==
    /\ last.event = "__exit__"
    /\ last.raised = "AssertionError"
    /\ flags.first > 1
    /\ ~events
    /\ tools[tool_id] = ""

\* ------------------------------------------------------------------------
\* C19: unresolved code units and unmatched calls do not interrupt
\* ------------------------------------------------------------------------

\* No declared overload of the tracer matches the frame.
NoOverloadMatches(ft, f_locals) ==
    \A k \in 1..Len(ft.matched_calls) :
        ~ParamsMatch(ft.matched_calls[k].overload, f_locals)

\* The tracer the cache holds for the code unit and the locals of the
\* frame make an unresolved or an unmatched call.
UnresolvedOrUnmatched(tracer, fts, f_locals) ==
    \/ tracer = NoTracer
    \/ NoOverloadMatches(fts[tracer], f_locals)

\* The step's event is the enter event of an included call whose code unit
\* has no tracer or whose arguments match no overload.
UnresolvedOrUnmatchedStart ==
    /\ IncludedStart(last')
    /\ UnresolvedOrUnmatched(_known_codes'[last'.code], func_tracers',
                             frames'[Len(frames')].f_locals)

\* The step's event is the exit event of such a call, whose entry is on
\* top of the call stack.
UnresolvedOrUnmatchedExit ==
    /\ ExitEvent(last')
    /\ _call_stack # <<>>
    /\ _call_stack[Len(_call_stack)].cid = last'.by
    /\ \/ _call_stack[Len(_call_stack)].tracer = NoTracer
       \/ _call_stack[Len(_call_stack)].key.kind = "unmatched"

\* C19: the handler of an enter or exit event of a call whose code unit
\* cannot be resolved, or whose arguments match no overload, raises
\* nothing, neither the marker nor anything else.
C19_UnresolvedAndUnmatchedNeverRaise ==
    [][ UnresolvedOrUnmatchedStart \/ UnresolvedOrUnmatchedExit
        => last'.raised = "none"
      ]_vars

\* ------------------------------------------------------------------------
\* C20: NeverAnnotation matches no value; which schemas match an unwind
\* ------------------------------------------------------------------------

\* The schema kinds whose match_unwind gives a witness.
UnwindMatching == {"NeverAnnotation", "NoAnnotation"}

\* The schema match_unwind was applied to.
PureSchema == _get_return_annotation(Signature(<<>>, pure.annotation), PureClass, <<0>>)

\* C20: NeverAnnotation.match gives no match for every value, None
\* included, so an overload one of whose parameters is declared Never
\* matches no call; match_unwind gives a witness (the schema's own) for
\* NeverAnnotation and NoAnnotation and no match for every other schema:
\* None, Any, Self, Instance, Union (also one with a Never member) and
\* Unknown.
C20_NeverMatchesNothingUnwindMatchesNever ==
    pure.op # "none" /\ pure.result # Pending =>
        /\ pure.op = "match" /\ pure.annotation = AnnNever
           => pure.result = NoMatch
        /\ pure.op = "Overload.match" /\ pure.annotation = AnnNever
           => ~pure.result.ok
        /\ pure.op = "match_unwind"
           => /\ pure.result # NoMatch <=> PureSchema.kind \in UnwindMatching
              /\ PureSchema.kind \in UnwindMatching
                 => pure.result = [kind |-> PureSchema.kind \o ".Match"]
              /\ PureSchema.kind \in
                     {"NeverAnnotation", "NoAnnotation", "NoneAnnotation",
                      "AnyAnnotation", "SelfAnnotation", "InstanceAnnotation",
                      "UnionAnnotation", "UnknownAnnotation"}

\* match_unwind was applied to a union with a Never member and gave no
\* match.
C20_Witness ==
    /\ pure.op = "match_unwind"
    /\ pure.result = NoMatch
    /\ PureSchema.kind = "UnionAnnotation"
    /\ \E i \in 1..Len(PureSchema.options) : PureSchema.options[i].kind = "NeverAnnotation"

\* ------------------------------------------------------------------------
\* C21: the tally of a union over the witnesses its match produced
\* ------------------------------------------------------------------------

\* The schema whose coverage is analyzed.
AnalyzedSchema == get_annotation(pure.annotation, <<0>>)

\* The members of the union that were the first match of a value observed.
FirstMatched(ann, values) ==
    {i \in 1..Len(ann.options) :
        \E n \in 1..Len(values) :
            /\ i \in MatchingMembers(ann, values[n])
            /\ \A j \in MatchingMembers(ann, values[n]) : i <= j}

\* C21: for a UnionAnnotation with k members and the set of matches its
\* own match produced over a sequence of values, analyze_coverage gives
\* (number of distinct members that were the first match of some value,
\* k): hits never exceeds k, and values matching the same member count
\* once however many they are.
C21_UnionTallyCountsMembers ==
    (pure.op = "analyze_coverage" /\ pure.result # Pending
     /\ AnalyzedSchema.kind = "UnionAnnotation") =>
        /\ pure.result = TypeCoverage(Cardinality(FirstMatched(AnalyzedSchema, pure.values)),
                                      Len(AnalyzedSchema.options))
        /\ pure.result.hits <= Len(AnalyzedSchema.options)
        /\ pure.result.hits <= Len(pure.values)

\* Three values were matched against a union of three members, two of
\* them different values with the same first member, and the tally is
\* (2, 3).
C21_Witness ==
    /\ pure.op = "analyze_coverage"
    /\ AnalyzedSchema.kind = "UnionAnnotation"
    /\ pure.result = TypeCoverage(2, 3)
    /\ Len(pure.values) = 3
    /\ \E m, n \in 1..3 :
          /\ pure.values[m] # pure.values[n]
          /\ match(AnalyzedSchema, pure.values[m]) = match(AnalyzedSchema, pure.values[n])
          /\ match(AnalyzedSchema, pure.values[m]) # NoMatch

\* ------------------------------------------------------------------------
\* C22: a matched tuple tells whether its call returned or unwound
\* ------------------------------------------------------------------------

\* The outcome kind a matched tuple denotes: its third component is None
\* for a call that returned and the exception's repr for one that unwound.
OutcomeKind(t) == IF t[3] = <<>> THEN "return" ELSE "unwind"

\* The handler of the exit event noted in e passed to the tracer the key
\* of a call that matched an overload, and the tracer did not fail.
MatchedExit(e) ==
    /\ e.event \in {"return", "unwind"}
    /\ e.callbacks # <<>>
    /\ e.callbacks[1].raised = "none"
    /\ e.callbacks[1].key.kind = "matched"

\* C22: every tuple of an overload's matched record determines the
\* outcome kind of the calls it came from: the exit of a matched call
\* leaves in the record a tuple with the call's parameter witnesses and
\* the kind of that exit, and adds no tuple of the other kind; so a call
\* that returned and a call that unwound never produce the same tuple,
\* also with equal parameter witnesses and no outcome witness in either.
C22_TupleDeterminesOutcomeKind ==
    [][MatchedExit(last') =>
           /\ \E t \in Range(RecordOf(func_tracers', last'.callbacks[1])) :
                  /\ t[1] = last'.callbacks[1].key.matches
                  /\ OutcomeKind(t) = last'.event
           /\ \A t \in Range(RecordOf(func_tracers', last'.callbacks[1]))
                         \ Range(RecordOf(func_tracers, last'.callbacks[1])) :
                  OutcomeKind(t) = last'.event
           /\ Cardinality(Range(RecordOf(func_tracers', last'.callbacks[1]))
                              \ Range(RecordOf(func_tracers, last'.callbacks[1]))) <= 1
       ]_vars

\* A call that returned a value its return schema does not accept and a
\* call that unwound, with the same parameter witnesses and no outcome
\* witness in either, are two tuples of the record.
C22_Witness ==
    /\ MatchedExit(last)
    /\ \E t, u \in Range(RecordOf(func_tracers, last.callbacks[1])) :
          /\ t[1] = u[1]
          /\ t[2] = NoMatch
          /\ u[2] = NoMatch
          /\ OutcomeKind(t) = "return"
          /\ OutcomeKind(u) = "unwind"

\* ------------------------------------------------------------------------
\* C23: match is a function of schema and value; witnesses denote branches
\* ------------------------------------------------------------------------

\* The branch of the schema a matching value takes: the schema's variant
\* and, for a union, the first member that matches.
Branch(ann, value) ==
    IF ann.kind = "UnionAnnotation"
    THEN <<ann.kind, CHOOSE i \in MatchingMembers(ann, value) :
                         \A j \in MatchingMembers(ann, value) : i <= j>>
    ELSE <<ann.kind>>

\* The two applications gave the same witness for the same value, and
\* for two values that both match, equal witnesses exactly when the
\* values took the same branch.
WitnessesDenoteBranches ==
    (pure.op = "match_twice" /\ pure.again # Pending) =>
        /\ pure.value = pure.other => pure.result = pure.again
        /\ (pure.result # NoMatch /\ pure.again # NoMatch) =>
               (pure.result = pure.again
                    <=> Branch(pure.schema, pure.value) = Branch(pure.schema, pure.other))

\* An application of match leaves the schema and every record as they were.
MatchChangesNothing ==
    pure'.op = "match_twice" =>
        /\ pure'.schema = pure.schema
        /\ UNCHANGED <<func_tracers, traced_funcs, _known_codes, _call_stack>>

\* C23: for a fixed schema, match is deterministic and changes neither
\* the schema nor any record, and two values yield equal witnesses if and
\* only if they matched the same branch of the schema (same variant and,
\* for a union, same chosen member), whatever the values.
C23_MatchDeterministicWitnessIsBranch ==
    /\ []WitnessesDenoteBranches
    /\ [][MatchChangesNothing]_vars

\* Two different values of different classes matched int | object on the
\* same member and gave equal witnesses.
C23_Witness ==
    /\ pure.op = "match_twice"
    /\ pure.schema.kind = "UnionAnnotation"
    /\ pure.value # pure.other
    /\ ValueType[pure.value] # ValueType[pure.other]
    /\ pure.again # Pending
    /\ pure.result # NoMatch
    /\ pure.result = pure.again

\* ------------------------------------------------------------------------
\* C24: tallies compose element-wise; the ratio of a total of 0 is 1.0
\* ------------------------------------------------------------------------

\* The tally (0, 0).
Vacuous == [hits |-> 0, total |-> 0]

\* C24: the product of two tallies is (h1*h2, t1*t2) and their sum is
\* (h1+h2, t1+t2); the ratio of a tally whose total is 0 is 1.0 whatever
\* its hits, and hits / total otherwise; so the product with a (0, 0)
\* tally is (0, 0) and has ratio 1.0.
C24_TalliesComposeElementwise ==
    (pure.op \in {"__mul__", "__add__"} /\ pure.result # Pending) =>
        /\ pure.op = "__mul__" =>
               /\ pure.result.cov.hits = pure.a.hits * pure.b.hits
               /\ pure.result.cov.total = pure.a.total * pure.b.total
               /\ (pure.a = Vacuous \/ pure.b = Vacuous) =>
                      /\ pure.result.cov = Vacuous
                      /\ pure.result.ratio = <<1, 1>>
        /\ pure.op = "__add__" =>
               /\ pure.result.cov.hits = pure.a.hits + pure.b.hits
               /\ pure.result.cov.total = pure.a.total + pure.b.total
        /\ pure.result.cov.total = 0 => pure.result.ratio = <<1, 1>>
        /\ pure.result.cov.total > 0 =>
               pure.result.ratio = <<pure.result.cov.hits, pure.result.cov.total>>

\* The tally (1, 2) was multiplied by (0, 0): the product is (0, 0) and
\* its ratio 1.0.
C24_Witness ==
    /\ pure.op = "__mul__"
    /\ pure.a = [hits |-> 1, total |-> 2]
    /\ pure.b = Vacuous
    /\ pure.result # Pending
    /\ pure.result.cov = Vacuous
    /\ pure.result.ratio = <<1, 1>>

\* ------------------------------------------------------------------------
\* C25: Self bound to a class matches the instances of it and of its
\* subclasses
\* ------------------------------------------------------------------------

\* The base each class is declared with (class Bar(Foo), bool derives
\* from int, the others from object).
BaseOf(class) ==
    CASE class = "bool" -> "int"
      [] class = "Bar" -> "Foo"
      [] OTHER -> "object"

\* class is base or derives from it, directly or through its bases.
RECURSIVE SubclassOf(_, _)
SubclassOf(class, base) ==
    \/ class = base
    \/ class # "object" /\ SubclassOf(BaseOf(class), base)

\* The cases of test_self_annotation_match.
TestedSelfMatches ==
    /\ (pure.bound_class = "Foo" /\ pure.value \in {"vFoo", "vBar"})
           => pure.result # NoMatch
    /\ (pure.bound_class = "Foo" /\ pure.value = "v5") => pure.result = NoMatch
    /\ (pure.bound_class = "Bar" /\ pure.value = "vBar") => pure.result # NoMatch
    /\ (pure.bound_class = "Bar" /\ pure.value \in {"vFoo", "v5"})
           => pure.result = NoMatch

\* C25: SelfAnnotation bound to a class C matches a value if and only if
\* the value is an instance of C or of a subclass of C: an instance of a
\* subclass matches the schema bound to its base class, an instance of
\* the base class does not match the schema bound to the subclass, and a
\* value of an unrelated class matches neither.
C25_SelfMatchesInstancesOfBoundClass ==
    (pure.op = "SelfAnnotation.match" /\ pure.result # Pending) =>
        /\ pure.result # NoMatch <=> SubclassOf(ValueType[pure.value], pure.bound_class)
        /\ pure.result \in {NoMatch, [kind |-> "SelfAnnotation.Match"]}
        /\ TestedSelfMatches

\* An instance of Bar, which derives from Foo, matched Self bound to Foo.
C25_Witness ==
    /\ pure.op = "SelfAnnotation.match"
    /\ pure.bound_class = "Foo"
    /\ pure.value = "vBar"
    /\ pure.result = [kind |-> "SelfAnnotation.Match"]

\* ------------------------------------------------------------------------
\* C26: a failed enter event pushes nothing; the callers' entries stay
\* ------------------------------------------------------------------------

\* The handler of the enter event noted in e failed.
FailedEnter(e) == e.event = "start" /\ e.raised # "none"

\* The exceptional-exit event noted in e carried the marker.
MarkerExit(e) == e.event = "unwind" /\ e.value = MonitoringCallbackError

\* C26: an enter event whose handling fails raises the marker and pushes
\* nothing onto the call stack, and the exceptional-exit events the
\* marker then causes pop nothing: the entries of the callers in flight
\* before the failed enter stay on the stack, unchanged and in their
\* order.
C26_FailedEnterPushesNothing ==
    [][/\ FailedEnter(last') =>
              /\ last'.raised = MonitoringCallbackError
              /\ last'.stack = _call_stack
              /\ _call_stack' = _call_stack
       /\ (MarkerExit(last') /\ FailedEnter(last)) =>
              /\ last'.raised = "none"
              /\ _call_stack' = last.stack
       /\ (MarkerExit(last') /\ MarkerExit(last)) => _call_stack' = _call_stack
      ]_vars

\* The tracer's on_start failed at the enter event of a call with callers
\* in flight, the marker has left the frame of the call, and the callers'
\* entries are on the stack as the failed handler found them.
C26_Witness ==
    /\ MarkerExit(last)
    /\ history # <<>>
    /\ history[Len(history)].op = "on_start"
    /\ history[Len(history)].raised # "none"
    /\ history[Len(history)].cid = last.by
    /\ last.stack # <<>>
    /\ _call_stack = last.stack
    /\ \A i \in 1..Len(_call_stack) : _call_stack[i].cid # last.by
    /\ Len(frames) = Len(_call_stack)
    /\ \A i \in 1..Len(frames) : frames[i].cid = _call_stack[i].cid

====
